---- MODULE Spec2Model ----
(***************************************************************************)
(* The scoring functions of qa_module.py:                                  *)
(*   semantic_f1_metric, hallucination_aware_metric, _fallback_metric.     *)
(* A Python str is a TLA+ string (a sequence of characters); the str       *)
(* methods the metrics use (lower, strip, split, in, slicing) are          *)
(* operators that compute what the method computes on ASCII text.          *)
(* A score is held in hundredths: 1.0 is Scale, 0.0 is 0.                  *)
(***************************************************************************)
EXTENDS Integers, Sequences, FiniteSets, TLC

\* frames and stdout belong to the threads of SpecThreads: the frame of each
\* running call and the lines written to the console, in order.
\* files belongs to the scripts of SpecScripts: the files of the working
\* directory, by path.
VARIABLES gold, pred, calls, frames, stdout, files

vars == <<gold, pred, calls, frames, stdout, files>>

(***************************************************************************)
(* Python str methods                                                      *)
(***************************************************************************)
UpperLetters == "ABCDEFGHIJKLMNOPQRSTUVWXYZ"
LowerLetters == "abcdefghijklmnopqrstuvwxyz"

\* the characters str.strip() and str.split() treat as whitespace
Whitespace == {" ", "\t", "\n", "\r"}

CharAt(s, i) == SubSeq(s, i, i)

\* s[:n]
Take(s, n) == SubSeq(s, 1, IF Len(s) < n THEN Len(s) ELSE n)

\* the lower-case letter of each upper-case letter
LowerOf ==
    [c \in {CharAt(UpperLetters, i) : i \in 1..Len(UpperLetters)} |->
       CharAt(LowerLetters, CHOOSE i \in 1..Len(UpperLetters) : CharAt(UpperLetters, i) = c)]

LowerChar(c) == IF c \in DOMAIN LowerOf THEN LowerOf[c] ELSE c

RECURSIVE lower(_)
\* str.lower()
lower(s) ==
    IF Len(s) = 0 THEN s
    ELSE IF Len(s) = 1 THEN LowerChar(s)
    ELSE lower(SubSeq(s, 1, Len(s) \div 2))
           \o lower(SubSeq(s, Len(s) \div 2 + 1, Len(s)))

RECURSIVE lstrip(_)
lstrip(s) ==
    IF Len(s) > 0 /\ CharAt(s, 1) \in Whitespace
    THEN lstrip(SubSeq(s, 2, Len(s)))
    ELSE s

RECURSIVE rstrip(_)
rstrip(s) ==
    IF Len(s) > 0 /\ CharAt(s, Len(s)) \in Whitespace
    THEN rstrip(SubSeq(s, 1, Len(s) - 1))
    ELSE s

\* str.strip()
strip(s) == rstrip(lstrip(s))

\* needle in hay
In(needle, hay) ==
    \E i \in 1..(Len(hay) - Len(needle) + 1) :
        SubSeq(hay, i, i + Len(needle) - 1) = needle

\* the length of the leading run of non-whitespace characters of s
RECURSIVE WordLen(_)
WordLen(s) ==
    IF Len(s) = 0 \/ CharAt(s, 1) \in Whitespace THEN 0
    ELSE 1 + WordLen(SubSeq(s, 2, Len(s)))

RECURSIVE splitOnSpace(_)
\* a slip: split(" ") for split(): every single space separates, and empty
\* tokens are kept
splitOnSpace(s) ==
    LET n == IF In(" ", s)
             THEN (CHOOSE i \in 1..Len(s) :
                     CharAt(s, i) = " " /\ ~In(" ", SubSeq(s, 1, i - 1))) - 1
             ELSE Len(s)
    IN  IF n = Len(s) THEN {s}
        ELSE {SubSeq(s, 1, n)} \cup splitOnSpace(SubSeq(s, n + 2, Len(s)))

RECURSIVE split(_)
\* set(str.split()): the set of the maximal whitespace-free runs of s
split(s) ==
    LET t == lstrip(s)
        n == WordLen(t)
    IN  IF Len(t) = 0 THEN {}
        ELSE {SubSeq(t, 1, n)} \cup split(SubSeq(t, n + 1, Len(t)))

(***************************************************************************)
(* Scores                                                                  *)
(***************************************************************************)
Scale == 100


\* >= 0.8 of the gold's tokens, in hundredths
OverlapThreshold == 80

\* answers shorter than this go to _fallback_metric
LengthThreshold == 50

\* print slices: gold.question[:60], pred.answer[:80]
QuestionCut == 60
AnswerCut == 80

(***************************************************************************)
(* _fallback_metric                                                        *)
(***************************************************************************)
refusal_phrases ==
    << "not provided in context", "not mentioned", "not in context",
       "cannot answer", "cannot be determined", "don't know", "information not",
       "information not available", "not available",
       "this information is not", "is not provided",
       "is not provided in the context", "not provided",
       "context does not contain", "not in the provided context",
       "mentioned in the provided context", "provided context" >>

\* pred_answer.lower().strip(), gold_answer.lower().strip()
Normalize(s) == strip(lower(s))

\* the gold test that opens the lenient refusal step
FallbackRefusalTarget(gold_answer) ==
    \/ In("not provided", gold_answer)
    \/ In("not mentioned", gold_answer)
    \/ In("not in context", gold_answer)

\* a slip: the dispatcher's indicator list used in place of refusal_phrases
FallbackRefusedIndicators(pred_answer) ==
    \E ph \in {"not provided in context", "not mentioned in context", "not mentioned",
               "mentioned in the provided context", "information is not provided",
               "information not available", "not available", "not in the context",
               "not in context", "cannot answer", "cannot be determined", "don't know",
               "is not provided in the context", "is not provided",
               "context does not contain", "not in the provided context",
               "not stated in the context", "provided context"} : In(ph, pred_answer)

\* any(phrase in pred_answer for phrase in refusal_phrases)
FallbackRefused(pred_answer) ==
    \E i \in 1..Len(refusal_phrases) : In(refusal_phrases[i], pred_answer)

\* a slip: an empty answer is never taken for a substring
SubstringMatchNonEmpty(gold_answer, pred_answer) ==
    /\ gold_answer # "" /\ pred_answer # ""
    /\ (In(gold_answer, pred_answer) \/ In(pred_answer, gold_answer))

\* gold_answer in pred_answer or pred_answer in gold_answer
\* a slip: containment tested in one direction only
SubstringMatchOneWay(gold_answer, pred_answer) == In(gold_answer, pred_answer)

SubstringMatch(gold_answer, pred_answer) ==
    In(gold_answer, pred_answer) \/ In(pred_answer, gold_answer)

\* if gold_words: overlap = len(pred_words & gold_words) / len(gold_words);
\* overlap >= 0.8.  The quotient is compared exactly: k/n >= 0.8 iff
\* k * Scale >= OverlapThreshold * n.
\* a slip: > 0.8 for >= 0.8
OverlapMatchStrict(pred_words, gold_words) ==
    /\ gold_words # {}
    /\ Cardinality(pred_words \cap gold_words) * Scale
         > OverlapThreshold * Cardinality(gold_words)

OverlapMatch(pred_words, gold_words) ==
    /\ gold_words # {}
    /\ Cardinality(pred_words \cap gold_words) * Scale
         >= OverlapThreshold * Cardinality(gold_words)

\* a slip: the substring step placed before the refusal step
fallback_metricSubstringFirst(g, p) ==
    LET pred_answer == Normalize(p.answer)
        gold_answer == Normalize(g.answer)
    IN  IF pred_answer = gold_answer THEN Scale
        ELSE IF SubstringMatch(gold_answer, pred_answer) THEN Scale
        ELSE IF FallbackRefusalTarget(gold_answer)
             THEN (IF FallbackRefused(pred_answer) THEN Scale ELSE 0)
        ELSE IF OverlapMatch(split(pred_answer), split(gold_answer)) THEN Scale
        ELSE 0

fallback_metric(g, p) ==
    LET pred_answer == Normalize(p.answer)
        gold_answer == Normalize(g.answer)
    IN  IF pred_answer = gold_answer THEN Scale
        ELSE IF FallbackRefusalTarget(gold_answer)
             THEN (IF FallbackRefused(pred_answer) THEN Scale ELSE 0)
        ELSE IF SubstringMatch(gold_answer, pred_answer) THEN Scale
        ELSE IF OverlapMatch(split(pred_answer), split(gold_answer)) THEN Scale
        ELSE 0

(***************************************************************************)
(* semantic_f1_metric                                                      *)
(***************************************************************************)
\* What one call of SemanticF1(decompositional=False)(wrapped_gold,
\* wrapped_pred) can do: return a float in [0.0, 1.0], return None, or raise.
DelegateOutcomes ==
    {[kind |-> "float", score |-> v, msg |-> ""] : v \in {0, 37, Scale}}
      \cup {[kind |-> "none", score |-> 0, msg |-> ""],
            [kind |-> "raise", score |-> 0, msg |-> "timeout"]}

\* What a call did: the score it returned, whether it called SemanticF1 and
\* with which outcome, whether it called _fallback_metric, what it printed.
Result(score, outcome, fallback, out) ==
    [score |-> score, delegate |-> outcome # "unused", outcome |-> outcome,
     fallback |-> fallback, out |-> out]

\* a slip: and for or
UseFallbackBoth(gold_answer, pred_answer) ==
    Len(gold_answer) < LengthThreshold /\ Len(pred_answer) < LengthThreshold

\* a slip: the prediction's length is not looked at
UseFallbackGoldOnly(gold_answer, pred_answer) ==
    Len(gold_answer) < LengthThreshold

\* len(gold_answer) < 50 or len(pred_answer) < 50
UseFallback(gold_answer, pred_answer) ==
    Len(gold_answer) < LengthThreshold \/ Len(pred_answer) < LengthThreshold

\* a slip: the delegate's score taken as a percentage
TryDelegatePercent(g, p, d) ==
    IF d.kind = "raise"
    THEN Result(fallback_metric(g, p), d.kind, TRUE,
                << "Warning: SemanticF1 failed (" \o d.msg \o "), using fallback metric" >>)
    ELSE Result(IF d.kind # "none" THEN d.score * Scale ELSE 0, d.kind, FALSE, << >>)

\* a slip: a failed delegate scored 0.0 instead of falling back
TryDelegateZero(g, p, d) ==
    IF d.kind = "raise"
    THEN Result(0, d.kind, FALSE,
                << "Warning: SemanticF1 failed (" \o d.msg \o "), using fallback metric" >>)
    ELSE Result(IF d.kind # "none" THEN d.score ELSE 0, d.kind, FALSE, << >>)

\* a slip: a None score sent to _fallback_metric instead of scored 0.0
TryDelegateNoneFallback(g, p, d) ==
    IF d.kind = "raise"
    THEN Result(fallback_metric(g, p), d.kind, TRUE,
                << "Warning: SemanticF1 failed (" \o d.msg \o "), using fallback metric" >>)
    ELSE IF d.kind = "none"
    THEN Result(fallback_metric(g, p), d.kind, TRUE, << >>)
    ELSE Result(d.score, d.kind, FALSE, << >>)

\* the try block, when the call of SemanticF1 ends as d
TryDelegate(g, p, d) ==
    IF d.kind = "raise"
    THEN Result(fallback_metric(g, p), d.kind, TRUE,
                << "Warning: SemanticF1 failed (" \o d.msg \o "), using fallback metric" >>)
    ELSE Result(IF d.kind # "none" THEN d.score ELSE 0, d.kind, FALSE, << >>)

\* a slip: the exact-match return left out
semantic_f1_metricNoExact(g, p) ==
    LET pred_answer == Normalize(p.answer)
        gold_answer == Normalize(g.answer)
    IN  IF UseFallback(gold_answer, pred_answer)
        THEN {Result(fallback_metric(g, p), "unused", TRUE, << >>)}
        ELSE {TryDelegate(g, p, d) : d \in DelegateOutcomes}

\* the results semantic_f1_metric(g, p) can have
semantic_f1_metric(g, p) ==
    LET pred_answer == Normalize(p.answer)
        gold_answer == Normalize(g.answer)
    IN  IF pred_answer = gold_answer THEN {Result(Scale, "unused", FALSE, << >>)}
        ELSE IF UseFallback(gold_answer, pred_answer)
        THEN {Result(fallback_metric(g, p), "unused", TRUE, << >>)}
        ELSE {TryDelegate(g, p, d) : d \in DelegateOutcomes}

(***************************************************************************)
(* hallucination_aware_metric                                              *)
(***************************************************************************)
refusal_indicators ==
    << "not provided in context",
       "not mentioned in context",
       "not mentioned",
       "mentioned in the provided context",
       "information is not provided",
       "information not available",
       "not available",
       "not in the context",
       "not in context",
       "cannot answer",
       "cannot be determined",
       "don't know",
       "is not provided in the context",
       "is not provided",
       "context does not contain",
       "not in the provided context",
       "not stated in the context",
       "provided context" >>

\* a slip: one of the three gold phrases left out
is_negativeTwo(gold_lower) ==
    \/ In("not provided", gold_lower)
    \/ In("not mentioned", gold_lower)

\* a slip: the gold test of _fallback_metric added to the three phrases
is_negativeWide(gold_lower) ==
    \/ In("not provided", gold_lower)
    \/ In("cannot answer", gold_lower)
    \/ In("not mentioned", gold_lower)
    \/ In("not in context", gold_lower)

\* a slip: the gold tested with the prediction's indicator list
is_negativeIndicators(gold_lower) ==
    \E i \in 1..Len(refusal_indicators) : In(refusal_indicators[i], gold_lower)

is_negative(gold_lower) ==
    \/ In("not provided", gold_lower)
    \/ In("cannot answer", gold_lower)
    \/ In("not mentioned", gold_lower)

\* a slip: the last indicator is never tried
refusedButLast(pred_lower) ==
    \E i \in 1..(Len(refusal_indicators) - 1) : In(refusal_indicators[i], pred_lower)

\* any(indicator in pred_lower for indicator in refusal_indicators)
refused(pred_lower) ==
    \E i \in 1..Len(refusal_indicators) : In(refusal_indicators[i], pred_lower)

\* a slip: the two slices swapped
HallucinationReportSwapped(g, p) ==
    << "HALLUCINATION DETECTED:",
       "   Question: " \o Take(g.question, AnswerCut) \o "...",
       "   Expected: Refusal (not provided in context)",
       "   Got: " \o Take(p.answer, QuestionCut) \o "..." >>

\* the four lines printed for a hallucination (the first without its emoji)
HallucinationReport(g, p) ==
    << "HALLUCINATION DETECTED:",
       "   Question: " \o Take(g.question, QuestionCut) \o "...",
       "   Expected: Refusal (not provided in context)",
       "   Got: " \o Take(p.answer, AnswerCut) \o "..." >>

\* the results hallucination_aware_metric(g, p) can have
hallucination_aware_metric(g, p) ==
    LET gold_lower == Normalize(g.answer)
    IN  IF is_negative(gold_lower)
        THEN LET pred_lower == Normalize(p.answer)
             IN  IF refused(pred_lower)
                 THEN {Result(Scale, "unused", FALSE, << >>)}
                 ELSE {Result(0, "unused", FALSE, HallucinationReport(g, p))}
        ELSE semantic_f1_metric(g, p)

(***************************************************************************)
(* The examples and predictions the metrics are called with                *)
(***************************************************************************)
\* the longest gold answer of the token family, in words
MaxGoldWords == 5

\* how far past LengthThreshold the long answers reach
MaxOver == 1

\* how many metric calls one behaviour records
MaxCalls == 2

UpperOf ==
    [c \in {CharAt(LowerLetters, i) : i \in 1..Len(LowerLetters)} |->
       CharAt(UpperLetters, CHOOSE i \in 1..Len(LowerLetters) : CharAt(LowerLetters, i) = c)]

RECURSIVE upper(_)
upper(s) ==
    IF Len(s) = 0 THEN s
    ELSE IF Len(s) = 1 THEN (IF s \in DOMAIN UpperOf THEN UpperOf[s] ELSE s)
    ELSE upper(SubSeq(s, 1, Len(s) \div 2))
           \o upper(SubSeq(s, Len(s) \div 2 + 1, Len(s)))

SeqToSet(q) == {q[i] : i \in 1..Len(q)}

\* one-letter words "a", "b", ...
Word(i) == CharAt(LowerLetters, i)

RECURSIVE JoinUp(_, _)
\* the words i..n in rising order, joined by single spaces
JoinUp(i, n) ==
    IF i > n THEN ""
    ELSE IF i = n THEN Word(i)
    ELSE Word(i) \o " " \o JoinUp(i + 1, n)

RECURSIVE JoinDown(_, _)
\* the words i..n in falling order
JoinDown(i, n) ==
    IF i > n THEN ""
    ELSE IF i = n THEN Word(i)
    ELSE Word(n) \o " " \o JoinDown(i, n - 1)

TokenGolds == {JoinUp(1, n) : n \in 0..MaxGoldWords}

TokenPreds ==
    UNION {{JoinUp(i, n), JoinDown(i, n)} :
             i \in 1..(MaxGoldWords + 1), n \in 1..(MaxGoldWords + 1)}

\* two ways an answer carries a phrase
Wraps(p) == {p, "  The answer: " \o upper(p) \o ".\n"}

GoldPhrases ==
    {"not provided", "cannot answer", "not mentioned", "not in context", "don't know"}

PredPhrases ==
    SeqToSet(refusal_indicators) \cup SeqToSet(refusal_phrases)
      \cup {"not provided", "provided", "not stated", "not  mentioned", "mentioned not"}

DatasetRefusal == "This information is not provided in the context"

LongA == "A decorator is a function that modifies other code objects"
LongB == "A generator is a function that yields values lazily one by one"
LongRefusal == DatasetRefusal \o " at all"

LongLengths == (LengthThreshold - 1)..(LengthThreshold + MaxOver)

LongGolds ==
    {Take(LongA, n) : n \in LongLengths}
      \cup {"  " \o Take(LongA, LengthThreshold - 1) \o "  ", LongRefusal}

LongPreds ==
    {Take(LongB, n) : n \in LongLengths}
      \cup {upper(Take(LongA, n)) : n \in LongLengths}
      \cup {LongA \o " and more", LongA \o " and " \o LongB,
            "A  " \o SubSeq(LongA, 3, LengthThreshold)}

MiscGolds ==
    {"  ", "@", "the @ symbol", "Lists", DatasetRefusal, "Yes, they are mutable"}

MiscPreds ==
    {"list", "a  b\tc", "A tuple is an immutable sequence",
     "Yes, Python lists are mutable"}

GoldAnswers ==
    TokenGolds \cup UNION {Wraps(p) : p \in GoldPhrases} \cup LongGolds \cup MiscGolds

PredAnswers ==
    TokenPreds \cup UNION {Wraps(p) : p \in PredPhrases} \cup LongPreds \cup MiscPreds
      \cup GoldAnswers

Questions ==
    {"What is the Global Interpreter Lock (GIL) and how does it affect multi-threaded Python programs?"}

(***************************************************************************)
(* The state: one example, one prediction, and the metric calls made on    *)
(* them so far, each with what it returned, called and printed.            *)
(***************************************************************************)
Init ==
    /\ gold \in [question : Questions, answer : GoldAnswers]
    /\ pred \in [answer : PredAnswers]
    /\ calls = << >>
    /\ frames = << >>
    /\ stdout = << >>
    /\ files = << >>

Record(fn, r) == [fn |-> fn] @@ r

\* A behaviour is a caller that scores the example with one metric, as often
\* as MaxCalls times.
MayCall(fn) ==
    /\ Len(calls) < MaxCalls
    /\ calls # << >> => calls[Len(calls)].fn = fn

\* hallucination_aware_metric(gold, pred)
CallHallucinationAware ==
    /\ MayCall("hallucination_aware_metric")
    /\ \E r \in hallucination_aware_metric(gold, pred) :
         calls' = Append(calls, Record("hallucination_aware_metric", r))
    /\ UNCHANGED <<files, gold, pred, frames, stdout>>

\* semantic_f1_metric(gold, pred)
CallSemanticF1 ==
    /\ MayCall("semantic_f1_metric")
    /\ \E r \in semantic_f1_metric(gold, pred) :
         calls' = Append(calls, Record("semantic_f1_metric", r))
    /\ UNCHANGED <<files, gold, pred, frames, stdout>>

\* _fallback_metric(gold, pred)
CallFallback ==
    /\ MayCall("_fallback_metric")
    /\ calls' = Append(calls, Record("_fallback_metric",
                                     Result(fallback_metric(gold, pred), "unused", TRUE, << >>)))
    /\ UNCHANGED <<files, gold, pred, frames, stdout>>

Next == CallHallucinationAware \/ CallSemanticF1 \/ CallFallback

Spec == Init /\ [][Next]_vars

(***************************************************************************)
(* The trace argument: hallucination_aware_metric(gold, pred, trace=None)  *)
(* as the optimizers call it, with a trace, with None, or without one.     *)
(***************************************************************************)
Traces == {"omitted", "None", "trace"}

\* the value of the parameter: the default None when the argument is omitted
TraceArg(t) == IF t = "omitted" THEN "None" ELSE t

\* a slip: with a trace the call is taken for bootstrapping and the report
\* is not printed
hallucination_aware_metric_traceQuiet(g, p, trace) ==
    IF trace = "None" THEN hallucination_aware_metric(g, p)
    ELSE {[r EXCEPT !.out = << >>] : r \in hallucination_aware_metric(g, p)}

\* the results hallucination_aware_metric(g, p, trace) can have: trace is
\* read nowhere in the body and is not handed to semantic_f1_metric
hallucination_aware_metric_trace(g, p, trace) == hallucination_aware_metric(g, p)

\* metric(gold, pred, trace), metric(gold, pred, None) or metric(gold, pred)
CallWithTrace ==
    /\ Len(calls) < MaxCalls
    /\ \E t \in Traces :
         \E r \in hallucination_aware_metric_trace(gold, pred, TraceArg(t)) :
           calls' = Append(calls, Record("hallucination_aware_metric", r) @@ [trace |-> t])
    /\ UNCHANGED <<files, gold, pred, frames, stdout>>

\* a negative, a short and a long example; a refusal, a short and two long
\* predictions
TraceGolds == {DatasetRefusal, "Lists", LongA}
TracePreds == {DatasetRefusal, "list", LongB, LongA \o " and " \o LongB}

InitTrace ==
    /\ gold \in [question : Questions, answer : TraceGolds]
    /\ pred \in [answer : TracePreds]
    /\ calls = << >>
    /\ frames = << >>
    /\ stdout = << >>
    /\ files = << >>

NextTrace == CallWithTrace

SpecTrace == InitTrace /\ [][NextTrace]_vars

(***************************************************************************)
(* Answers that are not strings.  An answer is a value with its type: None *)
(* and numbers have no lower(); bytes have lower(), strip(), len() and ==, *)
(* never equal a str, and raise TypeError for "<str> in <bytes>".          *)
(***************************************************************************)
StrValue(s) == [type |-> "str", value |-> s]
BytesValue(s) == [type |-> "bytes", value |-> s]
IntValue(repr) == [type |-> "int", value |-> repr]
NoneValue == [type |-> "NoneType", value |-> "None"]

\* whether x.lower() exists
HasLower(x) == x.type \in {"str", "bytes"}

\* x.lower().strip()
NormalizeValue(x) == [type |-> x.type, value |-> Normalize(x.value)]

\* a == b
EqualValues(a, b) == a.type = b.type /\ a.value = b.value

\* the example or prediction with its answer as a plain string
Plain(x) == [x EXCEPT !.answer = x.answer.value]

\* a call that raised exc to its caller instead of returning a score
Raised(exc, outcome, fallback, out) ==
    [raised |-> exc, delegate |-> outcome # "unused", outcome |-> outcome,
     fallback |-> fallback, out |-> out]

\* a slip: a defensive guard that scores a missing answer 0.0
fallback_metric_anyGuarded(g, p) ==
    IF ~HasLower(p.answer) \/ ~HasLower(g.answer)
    THEN Result(0, "unused", TRUE, << >>)
    ELSE LET pred_answer == NormalizeValue(p.answer)
             gold_answer == NormalizeValue(g.answer)
         IN  IF EqualValues(pred_answer, gold_answer)
             THEN Result(Scale, "unused", TRUE, << >>)
             ELSE IF gold_answer.type # "str" \/ pred_answer.type # "str"
             THEN Raised("TypeError", "unused", TRUE, << >>)
             ELSE Result(fallback_metric(Plain(g), Plain(p)), "unused", TRUE, << >>)

\* _fallback_metric(g, p) for answers of any type
fallback_metric_any(g, p) ==
    IF ~HasLower(p.answer) \/ ~HasLower(g.answer)
    THEN Raised("AttributeError", "unused", TRUE, << >>)
    ELSE LET pred_answer == NormalizeValue(p.answer)
             gold_answer == NormalizeValue(g.answer)
         IN  IF EqualValues(pred_answer, gold_answer)
             THEN Result(Scale, "unused", TRUE, << >>)
             \* "not provided" in gold_answer; phrase in pred_answer;
             \* gold_answer in pred_answer
             ELSE IF gold_answer.type # "str" \/ pred_answer.type # "str"
             THEN Raised("TypeError", "unused", TRUE, << >>)
             ELSE Result(fallback_metric(Plain(g), Plain(p)), "unused", TRUE, << >>)

\* the try block for answers of any type, when the call of SemanticF1 ends as d
TryDelegateAny(g, p, d) ==
    IF d.kind = "raise"
    THEN [fallback_metric_any(g, p) EXCEPT
            !.delegate = TRUE, !.outcome = d.kind,
            !.out = << "Warning: SemanticF1 failed (" \o d.msg \o "), using fallback metric" >>]
    ELSE Result(IF d.kind # "none" THEN d.score ELSE 0, d.kind, FALSE, << >>)

\* semantic_f1_metric(g, p) for answers of any type
semantic_f1_metric_any(g, p) ==
    IF ~HasLower(p.answer) \/ ~HasLower(g.answer)
    THEN {Raised("AttributeError", "unused", FALSE, << >>)}
    ELSE LET pred_answer == NormalizeValue(p.answer)
             gold_answer == NormalizeValue(g.answer)
         IN  IF EqualValues(pred_answer, gold_answer)
             THEN {Result(Scale, "unused", FALSE, << >>)}
             ELSE IF UseFallback(gold_answer.value, pred_answer.value)
             THEN {fallback_metric_any(g, p)}
             ELSE {TryDelegateAny(g, p, d) : d \in DelegateOutcomes}

\* hallucination_aware_metric(g, p) for answers of any type
hallucination_aware_metric_any(g, p) ==
    IF ~HasLower(g.answer)
    THEN {Raised("AttributeError", "unused", FALSE, << >>)}
    \* "not provided" in gold_lower
    ELSE IF g.answer.type # "str"
    THEN {Raised("TypeError", "unused", FALSE, << >>)}
    ELSE IF is_negative(Normalize(g.answer.value))
    THEN (IF ~HasLower(p.answer)
          THEN {Raised("AttributeError", "unused", FALSE, << >>)}
          \* indicator in pred_lower
          ELSE IF p.answer.type # "str"
          THEN {Raised("TypeError", "unused", FALSE, << >>)}
          ELSE hallucination_aware_metric(Plain(g), Plain(p)))
    ELSE semantic_f1_metric_any(g, p)

AnswerValues ==
    {NoneValue, IntValue("789"), BytesValue("Answer"), BytesValue(LongB),
     StrValue("Answer"), StrValue(DatasetRefusal), StrValue(LongA),
     StrValue("It is not in context")}

InitAny ==
    /\ gold \in [question : Questions, answer : AnswerValues]
    /\ pred \in [answer : AnswerValues]
    /\ calls = << >>
    /\ frames = << >>
    /\ stdout = << >>
    /\ files = << >>

CallHallucinationAwareAny ==
    /\ MayCall("hallucination_aware_metric")
    /\ \E r \in hallucination_aware_metric_any(gold, pred) :
         calls' = Append(calls, Record("hallucination_aware_metric", r))
    /\ UNCHANGED <<files, gold, pred, frames, stdout>>

CallSemanticF1Any ==
    /\ MayCall("semantic_f1_metric")
    /\ \E r \in semantic_f1_metric_any(gold, pred) :
         calls' = Append(calls, Record("semantic_f1_metric", r))
    /\ UNCHANGED <<files, gold, pred, frames, stdout>>

CallFallbackAny ==
    /\ MayCall("_fallback_metric")
    /\ calls' = Append(calls, Record("_fallback_metric", fallback_metric_any(gold, pred)))
    /\ UNCHANGED <<files, gold, pred, frames, stdout>>

NextAny == CallHallucinationAwareAny \/ CallSemanticF1Any \/ CallFallbackAny

SpecAny == InitAny /\ [][NextAny]_vars

(***************************************************************************)
(* Threads.  An optimizer's worker threads each call                       *)
(* hallucination_aware_metric on an example and prediction of their own:   *)
(* gold[t] and pred[t].  A call runs in steps between which the other      *)
(* threads run; its local variables live in its frame, and the console is  *)
(* the one thing the calls share.                                          *)
(***************************************************************************)
NThreads == 2

Threads == 1..NThreads

\* a negative example with a hallucination and with a refusal, a long
\* positive example and a short one
ThreadPairs ==
    {<<DatasetRefusal, LongA>>,
     <<DatasetRefusal, "Not mentioned in the provided context">>,
     <<LongA, LongB>>,
     <<"Lists", "list">>}

\* a slip: the locals kept in one module-level place for all calls
FrameOfShared(t) == 1

\* where the locals of thread t's call live: in the call's own frame
FrameOf(t) == t

Local(t) == frames[FrameOf(t)]

InitThreads ==
    /\ \E pairs \in [Threads -> ThreadPairs] :
         /\ \A t, u \in Threads : t # u => pairs[t] # pairs[u]
         /\ gold = [t \in Threads |->
                      [question |-> CHOOSE q \in Questions : TRUE, answer |-> pairs[t][1]]]
         /\ pred = [t \in Threads |-> [answer |-> pairs[t][2]]]
    /\ calls = << >>
    /\ frames = [t \in Threads |->
                   [pc |-> "start", is_negative |-> FALSE, refused |-> FALSE,
                    outcome |-> "unused"]]
    /\ stdout = << >>
    /\ files = << >>

\* thread t moves to pc
Goto(F, t, pc) == [F EXCEPT ![t].pc = pc]

\* print(line) by thread t
PrintLine(t, line) == stdout' = Append(stdout, [thread |-> t, line |-> line])

\* return score
Return(t, score, fallback) ==
    /\ calls' = Append(calls, [fn |-> "hallucination_aware_metric", thread |-> t,
                               score |-> score,
                               delegate |-> frames[t].outcome # "unused",
                               outcome |-> frames[t].outcome,
                               fallback |-> fallback])
    /\ frames' = Goto(frames, t, "done")

\* gold_lower = ...; is_negative = (...)
ClassifyGold(t) ==
    /\ frames[t].pc = "start"
    /\ frames' = Goto([frames EXCEPT ![FrameOf(t)].is_negative =
                                          is_negative(Normalize(gold[t].answer))],
                      t, "if_negative")
    /\ UNCHANGED <<files, gold, pred, calls, stdout>>

\* if is_negative: pred_lower = ...; refused = any(...)
TestNegative(t) ==
    /\ frames[t].pc = "if_negative"
    /\ IF Local(t).is_negative
       THEN frames' = Goto([frames EXCEPT ![FrameOf(t)].refused =
                                               refused(Normalize(pred[t].answer))],
                           t, "if_refused")
       ELSE frames' = Goto(frames, t, "semantic")
    /\ UNCHANGED <<files, gold, pred, calls, stdout>>

\* if refused: return 1.0
TestRefused(t) ==
    /\ frames[t].pc = "if_refused"
    /\ IF Local(t).refused
       THEN Return(t, Scale, FALSE)
       ELSE frames' = Goto(frames, t, "print1") /\ UNCHANGED calls
    /\ UNCHANGED <<files, gold, pred, stdout>>

\* the four prints of the report, one at a time, then return 0.0
PrintReport(t) ==
    \E k \in 1..4 :
        /\ frames[t].pc = <<"print1", "print2", "print3", "print4">>[k]
        /\ PrintLine(t, HallucinationReport(gold[t], pred[t])[k])
        /\ frames' = Goto(frames, t, <<"print2", "print3", "print4", "return0">>[k])
        /\ UNCHANGED <<files, gold, pred, calls>>

ReturnZero(t) ==
    /\ frames[t].pc = "return0"
    /\ Return(t, 0, FALSE)
    /\ UNCHANGED <<files, gold, pred, stdout>>

\* semantic_f1_metric(gold, pred) up to the try
EnterSemantic(t) ==
    /\ frames[t].pc = "semantic"
    /\ LET pred_answer == Normalize(pred[t].answer)
           gold_answer == Normalize(gold[t].answer)
       IN  IF pred_answer = gold_answer
           THEN Return(t, Scale, FALSE)
           ELSE /\ frames' = Goto(frames, t,
                                  IF UseFallback(gold_answer, pred_answer)
                                  THEN "fallback" ELSE "try")
                /\ UNCHANGED calls
    /\ UNCHANGED <<files, gold, pred, stdout>>

\* the try block: SemanticF1 returns, or raises and the warning is printed
CallDelegate(t) ==
    /\ frames[t].pc = "try"
    /\ \E d \in DelegateOutcomes :
         IF d.kind = "raise"
         THEN /\ PrintLine(t, "Warning: SemanticF1 failed (" \o d.msg
                                \o "), using fallback metric")
              /\ frames' = Goto([frames EXCEPT ![t].outcome = d.kind], t, "fallback")
              /\ UNCHANGED calls
         ELSE /\ calls' = Append(calls, [fn |-> "hallucination_aware_metric", thread |-> t,
                                         score |-> IF d.kind # "none" THEN d.score ELSE 0,
                                         delegate |-> TRUE, outcome |-> d.kind,
                                         fallback |-> FALSE])
              /\ frames' = Goto(frames, t, "done")
              /\ UNCHANGED stdout
    /\ UNCHANGED <<files, gold, pred>>

\* return _fallback_metric(gold, pred)
RunFallback(t) ==
    /\ frames[t].pc = "fallback"
    /\ Return(t, fallback_metric(gold[t], pred[t]), TRUE)
    /\ UNCHANGED <<files, gold, pred, stdout>>

NextThreads ==
    \E t \in Threads :
        \/ ClassifyGold(t)
        \/ TestNegative(t)
        \/ TestRefused(t)
        \/ PrintReport(t)
        \/ ReturnZero(t)
        \/ EnterSemantic(t)
        \/ CallDelegate(t)
        \/ RunFallback(t)

SpecThreads == InitThreads /\ [][NextThreads]_vars

(***************************************************************************)
(* dataset.py: the shipped training set, in order.  The em dash of example *)
(* 6 is written "--".                                                      *)
(***************************************************************************)
trainset ==
    <<
      \* 1
      [context |->
            "Python's dataclasses module provides a decorator and functions for automatically "
            \o "adding generated special methods to user-defined classes. The @dataclass decorator "
            \o "automatically generates __init__, __repr__, and __eq__ methods based on the class "
            \o "attributes with type annotations. For more control over individual fields, you can "
            \o "use the field() function which accepts parameters like default (for default values),"
            \o " default_factory (for callable defaults), init (include in __init__), repr (include "
            \o "in string representation), compare (use in comparisons), and kw_only (keyword-only "
            \o "argument). The field() function is particularly useful for mutable default values "
            \o "like lists or dictionaries, where you should use default_factory=list instead of "
            \o "default=[] to avoid shared state between instances.",
       question |->
            "How do you handle mutable default values in Python dataclasses without causing "
            \o "shared state between instances?",
       answer |->
            "You should use the field() function with the default_factory parameter. For example,"
            \o " instead of default=[], you use default_factory=list. This ensures each instance "
            \o "gets its own separate list rather than sharing a single list across all instances, "
            \o "which prevents unexpected mutations affecting multiple objects."],
      \* 2
      [context |->
            "Python 3.9 and later support using await expressions directly in list, set, and "
            \o "dictionary comprehensions. This feature allows you to asynchronously iterate over "
            \o "iterables and build data structures in a concise syntax. When using await in "
            \o "comprehensions, you must be within an async function or async context. The await "
            \o "expression can be used in the comprehension's iterable part (before 'for') or in the"
            \o " expression part (after 'for'). However, each await operation is sequential within "
            \o "the comprehension, meaning if you need to await multiple independent operations "
            \o "concurrently, you should use asyncio.gather() or asyncio.TaskGroup() instead for "
            \o "better performance. The syntax works like: result = [await fetch_item(id) for id in "
            \o "item_ids] where fetch_item is an async function.",
       question |->
            "What should you use instead of await in comprehensions when you need to execute "
            \o "multiple independent async operations concurrently?",
       answer |->
            "You should use asyncio.gather() or asyncio.TaskGroup() instead of await in "
            \o "comprehensions. This is because await operations in comprehensions execute "
            \o "sequentially, which is inefficient for independent operations. asyncio.gather() "
            \o "schedules all coroutines to run concurrently and collects their results, while "
            \o "TaskGroup provides structured concurrency with automatic exception handling."],
      \* 3
      [context |->
            "The contextlib module provides the @contextmanager decorator which simplifies "
            \o "creating context managers from generator functions. When you use this decorator, the"
            \o " code before the yield statement serves as the __enter__ method (setup phase), and "
            \o "the code after yield serves as the __exit__ method (teardown phase). The value "
            \o "yielded becomes what's assigned to the variable in the with statement. A key "
            \o "advantage of @contextmanager is that the finally clause in the generator ensures "
            \o "cleanup code always runs, even if an exception occurs in the with block. You can "
            \o "also catch exceptions by wrapping the yield in a try-except block, though you need "
            \o "to decide whether to suppress the exception or re-raise it after cleanup. This "
            \o "approach is more concise than creating a class with __enter__ and __exit__ methods "
            \o "for simple resource management scenarios.",
       question |->
            "How does the @contextmanager decorator ensure cleanup code always runs, even when "
            \o "exceptions occur?",
       answer |->
            "The @contextmanager decorator uses a finally clause in the generator function to "
            \o "ensure cleanup code always executes. Any code placed after the yield statement runs "
            \o "in a finally block, which Python guarantees to execute regardless of whether the "
            \o "with block completes normally or raises an exception. You can also add exception "
            \o "handling with a try-except around the yield if you need to catch specific errors "
            \o "during the with block execution."],
      \* 4
      [context |->
            "Type annotations for generators use the Generator[YieldType, SendType, ReturnType] "
            \o "type from the typing module. The first type parameter (YieldType) indicates what the"
            \o " generator yields, the second (SendType) indicates what type of values it can "
            \o "receive via send(), and the third (ReturnType) indicates the return value when the "
            \o "generator finishes. For generators that only yield values and never receive anything"
            \o " or return a specific value, you can use Generator[YieldType, None, None]. Python's "
            \o "type checkers use these annotations to ensure you're using generators correctly, "
            \o "such as preventing you from sending values of the wrong type or expecting return "
            \o "values from generators that don't have them. Starting with Python 3.9, you can also "
            \o "use collections.abc.Generator as a generic type, though the typing module version "
            \o "provides more explicit documentation of all three type parameters.",
       question |->
            "What are the three type parameters in Generator[YieldType, SendType, ReturnType] "
            \o "used for?",
       answer |->
            "The YieldType parameter specifies what values the generator yields, the SendType "
            \o "parameter indicates what type of values can be sent into the generator using the "
            \o "send() method, and the ReturnType parameter defines what value the generator returns"
            \o " when it completes (if any). This three-part type signature allows type checkers to "
            \o "verify correct usage of generators in both yielding and receiving values."],
      \* 5
      [context |->
            "Creating decorators that accept parameters requires three levels of nested "
            \o "functions. The outermost function accepts the decorator parameters and returns the "
            \o "actual decorator function. The middle function is the decorator itself, which "
            \o "receives the function being decorated. The innermost function is the wrapper that "
            \o "replaces the decorated function, containing the code that runs before and after the "
            \o "original function. This nesting is necessary because the decorator parameters need "
            \o "to be captured in the outer function's closure and made available to the wrapper "
            \o "function. A common pattern is to use functools.wraps() on the wrapper function to "
            \o "preserve the original function's metadata like __name__, __doc__, and "
            \o "__annotations__. Without functools.wraps(), the decorated function would appear to "
            \o "have the wrapper's metadata instead of its own, which makes debugging and "
            \o "introspection more difficult.",
       question |->
            "Why do parameterized decorators require three levels of nested function definitions?",
       answer |->
            "Three levels are needed because each level serves a different purpose: the outermost"
            \o " function accepts and stores the decorator parameters, the middle function receives "
            \o "the actual function being decorated, and the innermost wrapper function contains the"
            \o " enhanced behavior. This nesting creates closures that capture both the decorator "
            \o "parameters and the original function, making them available when the wrapper is "
            \o "eventually called."],
      \* 6
      [context |->
            "Type hints in Python use the Union and Optional types from the typing module to "
            \o "express flexible but constrained types. Union[X, Y] indicates a value can be either "
            \o "type X or type Y, while Optional[X] is shorthand for Union[X, None], meaning the "
            \o "value can be type X or None. Starting with Python 3.10, you can use the pipe syntax "
            \o "(X | Y) instead of Union[X, Y] for more concise code. Type checkers use these hints "
            \o "to catch potential type errors before runtime, such as trying to call a method that "
            \o "doesn't exist on all possible types in the Union. When working with Union types, "
            \o "it's good practice to use isinstance() checks or hasattr() to narrow down which "
            \o "specific type you're dealing with before performing type-specific operations. This "
            \o "helps both type checkers and human readers understand the code's intent.",
       question |->
            "What is the difference between Optional[X] and Union[X, None] in type hints?",
       answer |->
            "There is no functional difference--Optional[X] is simply shorthand notation for "
            \o "Union[X, None]. Both indicate that a value can be of type X or None. Optional[X] is "
            \o "preferred when you want to emphasize the nullability of the type, while Union[X, "
            \o "None] makes the union explicit. They are completely equivalent in terms of type "
            \o "checking behavior."],
      \* 7
      [context |->
            "The @property decorator transforms a method into a read-only attribute that's "
            \o "computed when accessed rather than stored. This allows you to encapsulate "
            \o "computation behind attribute access syntax, making the interface cleaner while "
            \o "maintaining the ability to add validation or caching later. For writable properties,"
            \o " you can use the @property_name.setter decorator to define a method that runs when "
            \o "the property is assigned to. When you use @property, Python automatically creates a "
            \o "descriptor object that intercepts attribute access and calls your method instead. A "
            \o "common pattern is to make instance variables private (with a leading underscore) and"
            \o " expose them through properties, which lets you add validation or computed logic "
            \o "without breaking the public API. Properties also don't require parentheses when "
            \o "accessed, making them indistinguishable from regular attributes to the caller.",
       question |->
            "How does the @property decorator change the behavior of a method when it's accessed?",
       answer |->
            "The @property decorator transforms a method so it can be accessed like an attribute "
            \o "without parentheses. When you access the property name, Python automatically calls "
            \o "the decorated method and returns its result. This allows computed or validated "
            \o "values to be accessed with the same syntax as stored attributes, providing a cleaner"
            \o " interface while keeping the implementation flexibility of a method."],
      \* 8
      [context |->
            "Python provides @classmethod and @staticmethod decorators for defining methods that "
            \o "aren't tied to specific instances. A @classmethod receives the class itself as the "
            \o "first argument (conventionally named cls) instead of the instance (self), allowing "
            \o "it to access and modify class-level state. This is commonly used for alternative "
            \o "constructors that preprocess data before creating an instance. A @staticmethod "
            \o "receives neither the instance nor the class as an implicit argument, making it "
            \o "behave like a regular function that happens to live in a class namespace. Static "
            \o "methods are useful for grouping related utility functions with a class when they "
            \o "don't need access to instance or class data. The key difference is that classmethods"
            \o " can be overridden in subclasses and have access to class state, while static "
            \o "methods are completely independent of both instance and class state.",
       question |->
            "What is the main difference between @classmethod and @staticmethod in Python?",
       answer |->
            "The main difference is that @classmethod receives the class as the first implicit "
            \o "argument (cls) and can access or modify class-level state, making it useful for "
            \o "alternative constructors and inheritance. @staticmethod receives no implicit first "
            \o "argument and behaves like a regular function, making it suitable for utility "
            \o "operations that don't need access to instance or class data."],
      \* 9
      [context |->
            "Descriptors are Python objects that implement __get__, __set__, or __delete__ "
            \o "methods to customize attribute access on a class. When you access an attribute "
            \o "that's a descriptor, Python calls the descriptor's __get__ method with the instance "
            \o "and owner class as arguments. For assignment, Python calls __set__ with the instance"
            \o " and the value being assigned. This mechanism is what powers properties, class "
            \o "methods, and static methods--they're all implemented using descriptors under the "
            \o "hood. A data descriptor (one that defines both __get__ and __set__) takes precedence"
            \o " over instance dictionaries, while a non-data descriptor (only __get__) can be "
            \o "shadowed by assigning to the instance. Descriptors are powerful for creating "
            \o "reusable attribute management logic, such as type validation, computed attributes, "
            \o "or lazy loading, because the descriptor code lives in one place and can be attached "
            \o "to any attribute in any class.",
       question |->
            "What distinguishes a data descriptor from a non-data descriptor in Python?",
       answer |->
            "A data descriptor defines both __get__ and __set__ methods, while a non-data "
            \o "descriptor only defines __get__. The key practical difference is that data "
            \o "descriptors take precedence over instance dictionaries, meaning you can't override "
            \o "them by assigning to the instance. Non-data descriptors can be shadowed by instance "
            \o "attributes, allowing instance-specific values to replace the descriptor's behavior "
            \o "when needed."],
      \* 10
      [context |->
            "Python supports multiple inheritance through classes that can have more than one "
            \o "parent class. When a method is called, Python uses the Method Resolution Order (MRO)"
            \o " to determine which class's method to use. The MRO follows the C3 linearization "
            \o "algorithm to ensure a consistent order that respects inheritance hierarchies.",
       question |->
            "How do you create a metaclass in Python?",
       answer |->
            "This information is not provided in the context"],
      \* 11
      [context |->
            "Python 3 introduced async and await keywords for writing asynchronous code. Async "
            \o "functions are defined using async def and return coroutine objects. The await "
            \o "keyword is used to call other async functions and wait for their results.",
       question |->
            "What is the difference between coroutines and generators in Python's implementation?",
       answer |->
            "This information is not provided in the context"],
      \* 12
      [context |->
            "Python's threading module allows you to run multiple threads concurrently. Each "
            \o "thread shares the same memory space and can access the same objects. You need to use"
            \o " locks or other synchronization primitives when multiple threads access shared "
            \o "mutable state to prevent race conditions.",
       question |->
            "What is the Global Interpreter Lock (GIL) and how does it affect multi-threaded "
            \o "Python programs?",
       answer |->
            "This information is not provided in the context"],
      \* 13
      [context |->
            "The asyncio module in Python provides infrastructure for writing single-threaded "
            \o "concurrent code using coroutines, multiplexing I/O access over a thread. The event "
            \o "loop is the core of asyncio, running asynchronous tasks and callbacks, performing "
            \o "network IO operations, and managing subprocesses. Tasks are used to schedule "
            \o "coroutines concurrently.",
       question |->
            "How does the event loop actually schedule tasks internally at the operating system "
            \o "level?",
       answer |->
            "This information is not provided in the context"],
      \* 14
      [context |->
            "Python dataclasses automatically generate __init__, __repr__, and __eq__ methods "
            \o "based on the class attributes with type annotations. The @dataclass decorator "
            \o "inspects the class variables and their types to create these methods. Fields can "
            \o "have default values and default factories for mutable defaults.",
       question |->
            "In what order are inherited dataclass fields handled in __init__ when multiple "
            \o "inheritance is used?",
       answer |->
            "This information is not provided in the context"],
      \* 15
      [context |->
            "Descriptors in Python allow you to customize attribute access on classes. They "
            \o "implement __get__, __set__, and __delete__ methods to control how attributes are "
            \o "accessed, modified, or deleted. Descriptors power the underlying mechanism for "
            \o "properties, class methods, and static methods.",
       question |->
            "What happens when multiple descriptors in the inheritance chain access the same "
            \o "attribute name?",
       answer |->
            "This information is not provided in the context"]
    >>

(***************************************************************************)
(* train.py on the shipped training set: the script prints the size of the *)
(* set and its split, then the optimizer scores predictions for its        *)
(* examples with hallucination_aware_metric.                               *)
(***************************************************************************)
\* a slip: the phrase capitalised
IsNegativeSampleCapital(s) == In("Not provided", s.answer)

\* "not provided" in s.answer
IsNegativeSample(s) == In("not provided", s.answer)

positive_count == Cardinality({i \in 1..Len(trainset) : ~IsNegativeSample(trainset[i])})
negative_count == Cardinality({i \in 1..Len(trainset) : IsNegativeSample(trainset[i])})

\* what a module may answer to an example: its gold answer, a refusal, or
\* something else
TrainPreds(example) ==
    {example.answer, "I don't know", "The context does not say.", LongB \o " " \o LongA}

InitTrain ==
    /\ gold \in SeqToSet(trainset)
    /\ pred \in [answer : TrainPreds(gold)]
    /\ calls = << >>
    /\ frames = << >>
    /\ stdout = << >>
    /\ files = << >>

\* the prints of the training set's size and split
ReportSamples ==
    /\ calls = << >>
    /\ calls' = << [fn |-> "train", samples |-> Len(trainset),
                    positive |-> positive_count, negative |-> negative_count] >>
    /\ UNCHANGED <<files, gold, pred, frames, stdout>>

\* optimizer.compile: the metric scores a prediction for the example
CompileScores ==
    /\ calls # << >>
    /\ Len(calls) <= MaxCalls
    /\ \E r \in hallucination_aware_metric(gold, pred) :
         calls' = Append(calls, Record("hallucination_aware_metric", r))
    /\ UNCHANGED <<files, gold, pred, frames, stdout>>

NextTrain == ReportSamples \/ CompileScores

SpecTrain == InitTrain /\ [][NextTrain]_vars

(***************************************************************************)
(* The scripts train.py, verify.py, test.py and compare_optimizers.py, run *)
(* one after another in a working directory.  frames holds the locals of   *)
(* the script that is running, << >> between runs; calls is the log of the *)
(* finished runs and of how each ended; a file is its path and what was    *)
(* written to it.                                                          *)
(***************************************************************************)
\* how many script runs one behaviour holds
MaxRuns == 3

Digits == "0123456789"

RECURSIVE str(_)
\* str(n) for n >= 0
str(n) ==
    IF n < 10 THEN CharAt(Digits, n + 1)
    ELSE str(n \div 10) \o CharAt(Digits, (n % 10) + 1)

\* the command lines of train.py: --optimizer, --auto, --num-threads
TrainArgs ==
    [optimizer : {"omitted", "bootstrap", "miprov2"},
     auto : {"None", "light", "medium", "heavy"},
     num_threads : {[given |-> FALSE, value |-> 0],
                    [given |-> TRUE, value |-> 0],
                    [given |-> TRUE, value |-> 4]}]

\* args.optimizer: default="bootstrap"
ArgOptimizer(args) == IF args.optimizer = "omitted" THEN "bootstrap" ELSE args.optimizer

\* args.auto or "light"
auto_mode(args) == IF args.auto = "None" THEN "light" ELSE args.auto

\* a slip: "is not None" for truthiness
ThreadsGivenNotNone(args) == args.num_threads.given

\* if args.num_threads:
ThreadsGiven(args) == args.num_threads.given /\ args.num_threads.value # 0

mipro_kwargs(args) ==
    LET base == [metric |-> "hallucination_aware_metric",
                 auto |-> auto_mode(args),
                 max_bootstrapped_demos |-> 4,
                 max_labeled_demos |-> 6,
                 max_errors |-> 10]
    IN  IF ThreadsGiven(args)
        THEN base @@ [num_threads |-> args.num_threads.value]
        ELSE base

\* the optimizer train.py builds
Optimizer(args) ==
    IF ArgOptimizer(args) = "miprov2"
    THEN [class |-> "MIPROv2", kwargs |-> mipro_kwargs(args)]
    ELSE [class |-> "BootstrapFewShot",
          kwargs |-> [metric |-> "hallucination_aware_metric",
                      max_labeled_demos |-> 6,
                      max_bootstrapped_demos |-> 4,
                      max_rounds |-> 1,
                      max_errors |-> 10]]

optimizer_suffix(args) == IF ArgOptimizer(args) = "miprov2" THEN "miprov2" ELSE "bootstrap"

\* a slip: the file name without the optimizer's suffix
model_pathPlain(args) == "trained_qa_model.json"

\* f"trained_qa_model_{optimizer_suffix}.json"
model_path(args) == "trained_qa_model_" \o optimizer_suffix(args) \o ".json"

\* the paths the other scripts look for
verify_model_path == "trained_qa_model.json"
test_model_path == "trained_qa_model.json"
bootstrap_model_path == "trained_qa_model_bootstrap.json"
miprov2_model_path == "trained_qa_model_miprov2.json"
report_path == "verification_report.txt"

exists(path) == path \in DOMAIN files

\* files with content written to path
Written(path, content) ==
    [q \in DOMAIN files \cup {path} |-> IF q = path THEN content ELSE files[q]]

InitScripts ==
    /\ gold = << >>
    /\ pred = << >>
    /\ calls = << >>
    /\ frames = << >>
    /\ stdout = << >>
    /\ \E paths \in SUBSET {verify_model_path, bootstrap_model_path, miprov2_model_path} :
         files = [q \in paths |-> [by |-> "earlier run", lines |-> << >>]]

Idle == frames = << >> /\ Len(calls) < MaxRuns

Finish(record) ==
    /\ calls' = Append(calls, record)
    /\ frames' = << >>

\* python train.py [--optimizer ...] [--auto ...] [--num-threads ...], up to
\* optimizer.compile; without GEMINI_API_KEY the script raises at once
TrainConfigure ==
    /\ Idle
    /\ \E args \in TrainArgs, api_key \in BOOLEAN :
         IF api_key
         THEN /\ frames' = [script |-> "train.py", pc |-> "compile", args |-> args,
                            optimizer |-> Optimizer(args)]
              /\ UNCHANGED calls
         ELSE Finish([fn |-> "train.py", completed |-> FALSE, raised |-> "ValueError"])
    /\ UNCHANGED <<files, gold, pred, stdout>>

\* optimizer.compile(student=qa_module, trainset=trainset) returns or raises
TrainCompile ==
    /\ frames # << >> /\ frames.script = "train.py" /\ frames.pc = "compile"
    /\ \/ frames' = [frames EXCEPT !.pc = "save"] /\ UNCHANGED calls
       \/ Finish([fn |-> "train.py", completed |-> FALSE, raised |-> "Exception"])
    /\ UNCHANGED <<files, gold, pred, stdout>>

\* trained_qa.save(model_path) and the prints to the end of the script
TrainSave ==
    /\ frames # << >> /\ frames.script = "train.py" /\ frames.pc = "save"
    /\ files' = Written(model_path(frames.args),
                        [by |-> frames.optimizer.class, lines |-> << >>])
    /\ stdout' = Append(stdout, [script |-> "train.py",
                                 line |-> "Trained model saved to: "
                                            \o model_path(frames.args)])
    /\ Finish([fn |-> "train.py", completed |-> TRUE,
               optimizer |-> frames.optimizer.class, saved |-> model_path(frames.args)])
    /\ UNCHANGED <<gold, pred>>

\* the sample count verify.py's report expects
ExpectedSamples == 6

\* a slip: the report's check against the dataset's own length
DataLoadedByLength(num_samples) == num_samples = Len(trainset)

\* "Data Loaded": results['num_samples'] == 6
DataLoaded(num_samples) == num_samples = ExpectedSamples

status(passed) == IF passed THEN "PASS" ELSE "FAIL"

\* results['test_results'], in insertion order
test_results(results) ==
    << [test_name |-> "Environment Check", passed |-> results.api_connected],
       [test_name |-> "Data Loaded", passed |-> DataLoaded(results.num_samples)],
       [test_name |-> "Model Trained", passed |-> results.model_loaded] >>

\* the lines of report_content that depend on results
report_content(results) ==
    << "Samples: " \o str(results.num_samples),
       "Status: " \o (IF results.model_loaded THEN "Loaded" ELSE "Not found") >>
    \o [i \in 1..Len(test_results(results)) |->
          status(test_results(results)[i].passed) \o " "
            \o test_results(results)[i].test_name]

VerifyLine(line) == [script |-> "verify.py", line |-> line]

\* verify.py step 1: verify_environment() is False without the key or on an
\* API error, and main returns
VerifyEnvironment ==
    /\ Idle
    /\ \E api_connected \in BOOLEAN :
         IF api_connected
         THEN /\ frames' = [script |-> "verify.py", pc |-> "data",
                            results |-> [api_connected |-> TRUE, num_samples |-> 0,
                                         model_loaded |-> FALSE]]
              /\ UNCHANGED <<calls, stdout>>
         ELSE /\ stdout' = Append(stdout,
                              VerifyLine("Cannot proceed without API connection"))
              /\ Finish([fn |-> "verify.py", report |-> FALSE, step |-> 1])
    /\ UNCHANGED <<files, gold, pred>>

\* verify.py step 2: results['num_samples'] = len(trainset); verify_data()
VerifyData ==
    /\ frames # << >> /\ frames.script = "verify.py" /\ frames.pc = "data"
    /\ frames' = [frames EXCEPT !.pc = "training",
                                !.results.num_samples = Len(trainset)]
    /\ stdout' = stdout \o
         << VerifyLine("Training samples: " \o str(Len(trainset))),
            VerifyLine("All " \o str(Len(trainset)) \o " samples loaded correctly") >>
    /\ UNCHANGED <<files, gold, pred, calls>>

\* verify.py step 3: os.path.exists(model_path), else main returns
VerifyTraining ==
    /\ frames # << >> /\ frames.script = "verify.py" /\ frames.pc = "training"
    /\ IF exists(verify_model_path)
       THEN /\ frames' = [frames EXCEPT !.pc = "report",
                                        !.results.model_loaded = TRUE]
            /\ stdout' = Append(stdout,
                 VerifyLine("Model loaded from " \o verify_model_path))
            /\ UNCHANGED calls
       ELSE /\ stdout' = Append(stdout,
                 VerifyLine("Cannot run demo without trained model"))
            /\ Finish([fn |-> "verify.py", report |-> FALSE, step |-> 3])
    /\ UNCHANGED <<files, gold, pred>>

\* verify.py steps 4 and 5: the demo is run or skipped, then generate_report;
\* the demo's conversation is the language model's and prints nothing here
VerifyReport ==
    /\ frames # << >> /\ frames.script = "verify.py" /\ frames.pc = "report"
    /\ \E response \in {"y", "n"} :
         stdout' = (IF response = "y" THEN stdout
                    ELSE Append(stdout, VerifyLine("Skipping demo...")))
                   \o << VerifyLine("Report saved to: " \o report_path) >>
    /\ files' = Written(report_path,
                        [by |-> "verify.py", lines |-> report_content(frames.results)])
    /\ Finish([fn |-> "verify.py", report |-> TRUE, step |-> 5])
    /\ UNCHANGED <<gold, pred>>

\* test.py main up to the model's load: without the file it prints and returns
TestLoad ==
    /\ Idle
    /\ stdout' = Append(stdout,
         [script |-> "test.py",
          line |-> IF exists(test_model_path)
                   THEN "Running tests"
                   ELSE "Run 'python train.py' first"])
    /\ Finish([fn |-> "test.py", loaded |-> exists(test_model_path)])
    /\ UNCHANGED <<files, gold, pred>>

\* compare_optimizers.main, lines 70-99: the model files it looks for and
\* loads (its evaluation and tables are SpecCompare's)
CompareLoad ==
    /\ Idle
    /\ LET bootstrap_exists == exists(bootstrap_model_path)
           miprov2_exists == exists(miprov2_model_path)
       IN  Finish([fn |-> "compare_optimizers.py",
                   loaded |-> (IF bootstrap_exists THEN {bootstrap_model_path} ELSE {})
                         \cup (IF miprov2_exists THEN {miprov2_model_path} ELSE {}),
                   models |-> files])
    /\ UNCHANGED <<files, gold, pred, stdout>>

NextScripts ==
    \/ TrainConfigure
    \/ TrainCompile
    \/ TrainSave
    \/ VerifyEnvironment
    \/ VerifyData
    \/ VerifyTraining
    \/ VerifyReport
    \/ TestLoad
    \/ CompareLoad

SpecScripts == InitScripts /\ [][NextScripts]_vars

(***************************************************************************)
(* Properties                                                              *)
(***************************************************************************)
\* the normalized form of every answer of the input sets
NormOf == [s \in GoldAnswers \cup PredAnswers |-> Normalize(s)]

\* the normalized answers of the example and the prediction
GoldNorm == NormOf[gold.answer]
PredNorm == NormOf[pred.answer]

\* the calls made so far of one metric
CallsOf(fn) == {i \in 1..Len(calls) : calls[i].fn = fn}
HamCalls == CallsOf("hallucination_aware_metric")
SemCalls == CallsOf("semantic_f1_metric")
FallbackCalls == CallsOf("_fallback_metric")

ContainsAny(phrases, text) == \E ph \in phrases : In(ph, text)

GoldSideVocabulary == {"not provided", "cannot answer", "not mentioned"}
PredictionSideVocabulary == SeqToSet(refusal_indicators)

\* the gold answers that expect a refusal and the predictions that refuse, as
\* the dispatcher's contract words it
RefusalExpecting == {s \in GoldAnswers : ContainsAny(GoldSideVocabulary, NormOf[s])}
Refusing == {s \in PredAnswers : ContainsAny(PredictionSideVocabulary, NormOf[s])}

ExpectsRefusal == gold.answer \in RefusalExpecting
PredRefuses == pred.answer \in Refusing

\* the gold answers that are refusal targets of _fallback_metric's lenient step
FallbackTargets ==
    {s \in GoldAnswers :
       ContainsAny({"not provided", "not mentioned", "not in context"}, NormOf[s])}

FallbackTarget == gold.answer \in FallbackTargets

Contained == In(GoldNorm, PredNorm) \/ In(PredNorm, GoldNorm)

\* the whitespace-separated token set of every normalized answer
TokensOf == [s \in GoldAnswers \cup PredAnswers |-> split(NormOf[s])]

GoldTokens == TokensOf[gold.answer]
PredTokens == TokensOf[pred.answer]
SharedTokens == GoldTokens \cap PredTokens

\* C1: every score hallucination_aware_metric returns lies in [0.0, 1.0],
\* whichever path produced it.
C1_ScoreInUnitRange ==
    \A i \in HamCalls : 0 <= calls[i].score /\ calls[i].score <= Scale

\* C1 witness: a call that went through the delegate, which returned a float
\* strictly between 0.0 and 1.0.
C1_Witness ==
    \E i \in HamCalls :
        /\ calls[i].outcome = "float"
        /\ 0 < calls[i].score /\ calls[i].score < Scale

\* C2: a refusal-expecting gold and a prediction containing any of the 18
\* prediction-side indicators score exactly 1.0, and nothing is printed.
C2_RefusalScoresOne ==
    /\ Cardinality(PredictionSideVocabulary) = 18
    /\ \A i \in HamCalls :
         ExpectsRefusal /\ PredRefuses =>
           calls[i].score = Scale /\ calls[i].out = << >>

\* C2 witness: a correct refusal whose only indicator is the last of the list,
\* in upper case inside a sentence.
C2_Witness ==
    \E i \in HamCalls :
        /\ ExpectsRefusal
        /\ In("provided context", PredNorm)
        /\ ~ContainsAny(PredictionSideVocabulary \ {"provided context"}, PredNorm)
        /\ pred.answer # PredNorm
        /\ calls[i].score = Scale

\* C3: on a refusal-expecting gold the score is 0.0 when the prediction has no
\* indicator, hence always 0.0 or 1.0, and neither _fallback_metric nor
\* SemanticF1 is called.
C3_NegativeAllOrNothing ==
    \A i \in HamCalls :
        ExpectsRefusal =>
          /\ ~PredRefuses => calls[i].score = 0
          /\ calls[i].score \in {0, Scale}
          /\ ~calls[i].fallback /\ ~calls[i].delegate

\* C3 witness: a hallucination on a gold that says "cannot answer", with a
\* prediction that shares words with the gold.
C3_Witness ==
    \E i \in HamCalls :
        /\ In("cannot answer", GoldNorm)
        /\ ~PredRefuses
        /\ SharedTokens # {}
        /\ calls[i].score = 0

\* C4: whenever the normalized answers are equal, hallucination_aware_metric
\* returns 1.0, also for a refusal-expecting gold.
C4_EqualAlwaysOne ==
    \A i \in HamCalls : GoldNorm = PredNorm => calls[i].score = Scale

\* C5: SemanticF1 is called only when the normalized answers differ and both
\* have length >= 50; with either shorter the result is _fallback_metric's and
\* SemanticF1 is not called; through hallucination_aware_metric it is never
\* called for a refusal-expecting gold.
C5_LengthRouting ==
    /\ \A i \in SemCalls \cup HamCalls :
         calls[i].delegate =>
           /\ GoldNorm # PredNorm
           /\ Len(GoldNorm) >= 50 /\ Len(PredNorm) >= 50
    /\ \A i \in SemCalls :
         Len(GoldNorm) <= 49 \/ Len(PredNorm) <= 49 =>
           /\ ~calls[i].delegate
           /\ calls[i].score = fallback_metric(gold, pred)
    /\ \A i \in HamCalls : ExpectsRefusal => ~calls[i].delegate

\* C5 witness: a gold of 50 characters against a prediction of 49 goes to
\* _fallback_metric.
C5_Witness ==
    \E i \in SemCalls :
        /\ Len(GoldNorm) = 50 /\ Len(PredNorm) = 49
        /\ calls[i].fallback /\ ~calls[i].delegate

\* C6: when SemanticF1 raises, the call still returns: it prints the warning
\* and its score is the one _fallback_metric gives for the same arguments.
C6_DelegateFailureRecovered ==
    \A i \in SemCalls \cup HamCalls :
        calls[i].outcome = "raise" =>
          /\ calls[i].score = fallback_metric(gold, pred)
          /\ calls[i].fallback
          /\ Len(calls[i].out) = 1
          /\ In("Warning: SemanticF1 failed", calls[i].out[1])

\* C6 witness: the delegate raised on two long answers that _fallback_metric
\* accepts, and the call returned 1.0.
C6_Witness ==
    \E i \in SemCalls :
        /\ calls[i].outcome = "raise"
        /\ Len(GoldNorm) >= 50 /\ Len(PredNorm) >= 50
        /\ calls[i].score = Scale

\* C7: without a refusal target, equality or containment, _fallback_metric
\* returns 1.0 exactly when the prediction has at least 80% of the gold's
\* token set, and 0.0 otherwise.
C7_OverlapThreshold ==
    \A i \in FallbackCalls :
        ~FallbackTarget /\ GoldNorm # PredNorm /\ ~Contained =>
          /\ calls[i].score \in {0, Scale}
          /\ calls[i].score = Scale <=>
               5 * Cardinality(SharedTokens) >= 4 * Cardinality(GoldTokens)

\* C7 witness: exactly 4 of the gold's 5 tokens, and a token the gold lacks,
\* score 1.0.
C7_Witness ==
    \E i \in FallbackCalls :
        /\ ~FallbackTarget /\ GoldNorm # PredNorm /\ ~Contained
        /\ Cardinality(GoldTokens) = 5 /\ Cardinality(SharedTokens) = 4
        /\ PredTokens \ GoldTokens # {}
        /\ calls[i].score = Scale

\* C8: without a refusal target, containment of either normalized answer in
\* the other makes _fallback_metric return 1.0.
C8_ContainmentBothWays ==
    \A i \in FallbackCalls :
        ~FallbackTarget /\ Contained => calls[i].score = Scale

\* C8 witness: the prediction is a proper part of the gold and shares no
\* token with it.
C8_Witness ==
    \E i \in FallbackCalls :
        /\ ~FallbackTarget
        /\ In(PredNorm, GoldNorm) /\ ~In(GoldNorm, PredNorm)
        /\ PredNorm # ""
        /\ SharedTokens = {}
        /\ calls[i].score = Scale

\* C9: answers equal after lower() and strip() make semantic_f1_metric return
\* 1.0 with neither _fallback_metric nor SemanticF1 called.
C9_Reflexive ==
    \A i \in SemCalls :
        GoldNorm = PredNorm =>
          calls[i].score = Scale /\ ~calls[i].fallback /\ ~calls[i].delegate

\* C9 witness: two different long answers, equal once normalized.
C9_Witness ==
    \E i \in SemCalls :
        /\ gold.answer # pred.answer
        /\ GoldNorm = PredNorm
        /\ Len(GoldNorm) >= 50
        /\ calls[i].score = Scale

ResultOf(c) == Result(c.score, c.outcome, c.fallback, c.out)

\* for every gold answer without a gold-side phrase and every prediction,
\* what the two metrics can return, call and print
PositiveResults ==
    [a \in GoldAnswers \ RefusalExpecting, b \in PredAnswers |->
       LET g == [question |-> CHOOSE q \in Questions : TRUE, answer |-> a]
           p == [answer |-> b]
       IN  [ham |-> hallucination_aware_metric(g, p), sem |-> semantic_f1_metric(g, p)]]

\* C12: for a gold with none of the three gold-side phrases,
\* hallucination_aware_metric returns exactly what semantic_f1_metric returns.
C12_PositiveDelegates ==
    \A i \in HamCalls :
        ~ExpectsRefusal =>
          /\ ResultOf(calls[i]) \in PositiveResults[gold.answer, pred.answer].sem
          /\ PositiveResults[gold.answer, pred.answer].ham
               = PositiveResults[gold.answer, pred.answer].sem

\* C12 witness: a gold that _fallback_metric takes for a refusal target but
\* the dispatcher does not, scored 1.0 through _fallback_metric.
C12_Witness ==
    \E i \in HamCalls :
        /\ ~ExpectsRefusal /\ FallbackTarget
        /\ GoldNorm # PredNorm
        /\ calls[i].fallback
        /\ calls[i].score = Scale

\* s[:n], as the claim words it
FirstChars(s, n) == IF Len(s) <= n THEN s ELSE SubSeq(s, 1, n)

HallucinationPrinted(c) == c.out # << >> /\ c.out[1] = "HALLUCINATION DETECTED:"

\* C13: the hallucination report is printed exactly when the gold expects a
\* refusal and the prediction has no indicator; the call then returns 0.0;
\* the question is printed cut to 60 characters, the prediction to 80.
C13_DiagnosticIsSignal ==
    \A i \in HamCalls :
        /\ HallucinationPrinted(calls[i]) <=> (ExpectsRefusal /\ ~PredRefuses)
        /\ HallucinationPrinted(calls[i]) =>
             /\ calls[i].score = 0
             /\ Len(calls[i].out) = 4
             /\ calls[i].out[2] = "   Question: " \o FirstChars(gold.question, 60) \o "..."
             /\ calls[i].out[4] = "   Got: " \o FirstChars(pred.answer, 80) \o "..."

\* C13 witness: a hallucination whose question is longer than 60 characters
\* and whose prediction is longer than 80.
C13_Witness ==
    \E i \in HamCalls :
        /\ HallucinationPrinted(calls[i])
        /\ Len(gold.question) > 60 /\ Len(pred.answer) > 80
        /\ calls[i].score = 0

\* C14: a short gold that is no refusal, and a prediction with 3 of its 4
\* tokens and others besides, neither containing the other, score at least 0.5
\* with semantic_f1_metric and hallucination_aware_metric.
C14_ThreeOfFourScoresHalf ==
    \A i \in SemCalls \cup HamCalls :
        /\ ~ExpectsRefusal /\ ~FallbackTarget
        /\ Len(GoldNorm) < 50
        /\ Cardinality(GoldTokens) = 4 /\ Cardinality(SharedTokens) = 3
        /\ PredTokens \ GoldTokens # {}
        /\ ~Contained
        => 2 * calls[i].score >= Scale

RECURSIVE words(_)
\* the words of s in order
words(s) ==
    LET t == lstrip(s)
        n == WordLen(t)
    IN  IF Len(t) = 0 THEN << >>
        ELSE <<SubSeq(t, 1, n)>> \o words(SubSeq(t, n + 1, Len(t)))

WordsOf == [s \in GoldAnswers \cup PredAnswers |-> words(s)]

\* the two answers have the same words in the same order
SameWords == WordsOf[gold.answer] = WordsOf[pred.answer]

FallbackRefusing ==
    {s \in PredAnswers : ContainsAny(SeqToSet(refusal_phrases), NormOf[s])}

\* C19 as stated: in _fallback_metric a gold containing a prediction-side
\* indicator is a refusal target, and then the score is 1.0 exactly when the
\* prediction contains a prediction-side indicator.
C19_TargetByIndicators ==
    \A i \in FallbackCalls :
        GoldNorm # PredNorm /\ ContainsAny(PredictionSideVocabulary, GoldNorm) =>
          (calls[i].score = Scale <=> PredRefuses)

\* C19 amended: a gold is a refusal target of _fallback_metric exactly when it
\* contains "not provided", "not mentioned" or "not in context"; then the
\* score is 1.0 exactly when the prediction contains one of the 17
\* refusal_phrases; every other gold is scored by containment and overlap.
C19_TargetByThreePhrases ==
    /\ Len(refusal_phrases) = 17
    /\ \A i \in FallbackCalls :
         GoldNorm # PredNorm =>
           /\ calls[i].score \in {0, Scale}
           /\ FallbackTarget =>
                (calls[i].score = Scale <=> pred.answer \in FallbackRefusing)
           /\ ~FallbackTarget =>
                (calls[i].score = Scale <=>
                   \/ Contained
                   \/ 5 * Cardinality(SharedTokens) >= 4 * Cardinality(GoldTokens))

\* C19 witness: a gold with "not in context" and a prediction whose only
\* refusal wording is "information not" score 1.0.
C19_Witness ==
    \E i \in FallbackCalls :
        /\ In("not in context", GoldNorm)
        /\ pred.answer \in FallbackRefusing /\ ~PredRefuses
        /\ calls[i].score = Scale

\* C20: for a gold both metrics take for refusal-expecting, a prediction that
\* _fallback_metric scores 1.0 is scored 1.0 by hallucination_aware_metric
\* (stated here for unequal normalized answers).
C20_DispatcherMoreLenient ==
    \A i \in HamCalls :
        /\ ExpectsRefusal /\ FallbackTarget
        /\ GoldNorm # PredNorm
        /\ fallback_metric(gold, pred) = Scale
        => calls[i].score = Scale

\* where the example sits in the training set
PositionOf(example) == CHOOSE i \in 1..Len(trainset) : trainset[i] = example

\* for every position, what the metric's rule and train.py's rule say
NegativeByRule ==
    [i \in 1..Len(trainset) |->
       [metric |-> is_negative(lower(trainset[i].answer)),
        train |-> IsNegativeSample(trainset[i]),
        strings |-> /\ trainset[i].context \in STRING
                    /\ trainset[i].question \in STRING
                    /\ trainset[i].answer \in STRING]]

TraceResults ==
    [a \in TraceGolds, b \in TracePreds, t \in {"None", "trace"} |->
       hallucination_aware_metric_trace([question |-> CHOOSE q \in Questions : TRUE,
                                         answer |-> a],
                                        [answer |-> b], t)]

\* C16: whatever trace is passed, None or none at all, the call returns and
\* prints what hallucination_aware_metric(gold, pred, None) can; two calls
\* that did not reach SemanticF1 agree in score and in what they printed.
C16_TraceIgnored ==
    \A i \in HamCalls :
        /\ ResultOf(calls[i]) \in TraceResults[gold.answer, pred.answer, "None"]
        /\ TraceResults[gold.answer, pred.answer, TraceArg(calls[i].trace)]
             = TraceResults[gold.answer, pred.answer, "None"]
        /\ \A j \in HamCalls :
             ~calls[i].delegate /\ ~calls[j].delegate =>
                 ResultOf(calls[i]) = ResultOf(calls[j])

\* C16 witness: a hallucination reported alike with a trace and without one.
C16_Witness ==
    \E i, j \in HamCalls :
        /\ calls[i].trace = "trace" /\ calls[j].trace = "omitted"
        /\ HallucinationPrinted(calls[i]) /\ HallucinationPrinted(calls[j])
        /\ calls[i].score = 0 /\ calls[j].score = 0

\* the call raised and returned no score
RaisedBy(c) == "raised" \in DOMAIN c /\ "score" \notin DOMAIN c

\* one of the two answers is not a string
Malformed == gold.answer.type # "str" \/ pred.answer.type # "str"

AloneResults ==
    [pair \in ThreadPairs |->
       hallucination_aware_metric([question |-> CHOOSE q \in Questions : TRUE,
                                   answer |-> pair[1]],
                                  [answer |-> pair[2]])]

RECURSIVE LinesOf(_, _)
\* the lines thread t has printed, in order
LinesOf(t, printed) ==
    IF printed = << >> THEN << >>
    ELSE (IF Head(printed).thread = t THEN <<Head(printed).line>> ELSE << >>)
           \o LinesOf(t, Tail(printed))

\* C11: under every interleaving of the threads' calls, each call returns a
\* score, and prints lines, that hallucination_aware_metric gives for its
\* pair when run alone; only the order of the lines of different threads on
\* the console may differ.
C11_ThreadsScoreAsAlone ==
    \A i \in 1..Len(calls) :
        LET c == calls[i]
            t == c.thread
        IN  Result(c.score, c.outcome, c.fallback, LinesOf(t, stdout))
              \in AloneResults[<<gold[t].answer, pred[t].answer>>]

\* C11 witness: two calls have returned, one of them 0.0 for a hallucination,
\* and a line of the other thread stands between the lines of its report.
C11_Witness ==
    /\ Len(calls) >= 2
    /\ \E i \in 1..Len(calls) : calls[i].score = 0 /\ ~calls[i].delegate /\ ~calls[i].fallback
    /\ \E j, k, l \in 1..Len(stdout) :
         /\ j < k /\ k < l
         /\ stdout[j].thread = stdout[l].thread
         /\ stdout[k].thread # stdout[j].thread

\* C21: hallucination_aware_metric takes the negative branch exactly when the
\* lowered, stripped gold contains "not provided", "cannot answer" or "not
\* mentioned": for unequal answers the negative branch calls neither
\* _fallback_metric nor SemanticF1, and the positive branch calls one of them;
\* a gold with only "not in context" or "don't know" goes the positive way.
C21_NegativeByThreePhrases ==
    \A i \in HamCalls :
        GoldNorm # PredNorm =>
          /\ ExpectsRefusal <=> (~calls[i].fallback /\ ~calls[i].delegate)
          /\ ContainsAny({"not in context", "don't know"}, GoldNorm) /\ ~ExpectsRefusal
               => calls[i].fallback \/ calls[i].delegate

\* C21 witness: a gold that says "don't know" and a prediction without
\* indicator, scored by _fallback_metric and with no report.
C21_Witness ==
    \E i \in HamCalls :
        /\ In("don't know", GoldNorm)
        /\ GoldNorm # PredNorm
        /\ ~PredRefuses
        /\ calls[i].fallback
        /\ calls[i].out = << >>

\* the prediction shares at least 80% of the gold's tokens
MostTokensShared ==
    /\ GoldTokens # {}
    /\ 5 * Cardinality(SharedTokens) >= 4 * Cardinality(GoldTokens)

\* C22: in _fallback_metric, for a refusal-target gold and unequal answers,
\* a prediction without refusal phrase scores 0.0 also when one answer
\* contains the other or 80% of the gold's tokens are shared: the refusal
\* step alone decides.
C22_RefusalStepExclusive ==
    \A i \in FallbackCalls :
        FallbackTarget /\ GoldNorm # PredNorm =>
          /\ calls[i].score = (IF pred.answer \in FallbackRefusing THEN Scale ELSE 0)
          /\ pred.answer \notin FallbackRefusing /\ (Contained \/ MostTokensShared)
               => calls[i].score = 0

\* C22 witness: "provided" against the gold "not provided", and "mentioned
\* not" against "not mentioned", score 0.0.
C22_Witness ==
    \E i \in FallbackCalls :
        /\ FallbackTarget /\ GoldNorm # PredNorm
        /\ pred.answer \notin FallbackRefusing
        /\ \/ In(PredNorm, GoldNorm) /\ PredNorm # ""
           \/ MostTokensShared /\ ~Contained
        /\ calls[i].score = 0

\* C23: when SemanticF1 returns a number, semantic_f1_metric returns a value
\* SemanticF1 can return; when it returns None, 0.0; in both cases
\* _fallback_metric is not called and nothing is printed.
C23_DelegateResultReturned ==
    \A i \in SemCalls :
        calls[i].outcome \in {"float", "none"} =>
          /\ \E d \in DelegateOutcomes :
               d.kind = calls[i].outcome /\ calls[i].score = d.score
          /\ calls[i].outcome = "none" => calls[i].score = 0
          /\ ~calls[i].fallback
          /\ calls[i].out = << >>

\* C23 witness: a score of 0.37 handed through, and a None scored 0.0.
C23_Witness ==
    \E i \in SemCalls :
        /\ ~calls[i].fallback
        /\ \/ calls[i].outcome = "float" /\ calls[i].score = 37
           \/ calls[i].outcome = "none" /\ calls[i].score = 0

\* exactly one of the two normalized answers is empty
OneEmpty == (GoldNorm = "") # (PredNorm = "")

\* C24 as stated: _fallback_metric scores 1.0 when the gold is no refusal
\* target and exactly one normalized answer is empty, and
\* hallucination_aware_metric scores an empty prediction 1.0 against every
\* gold of its positive branch.
C24_EmptyAlwaysOne ==
    /\ \A i \in FallbackCalls : ~FallbackTarget /\ OneEmpty => calls[i].score = Scale
    /\ \A i \in HamCalls :
         ~ExpectsRefusal /\ PredNorm = "" /\ GoldNorm # "" => calls[i].score = Scale

\* C24 amended: as stated, but hallucination_aware_metric scores an empty
\* prediction 1.0 against the golds of its positive branch that are no
\* refusal target of _fallback_metric either (no "not in context"), and 0.0
\* against those that are; a gold without tokens is scored before the
\* overlap step.
C24_EmptyOneOffTarget ==
    /\ \A i \in FallbackCalls :
         /\ ~FallbackTarget /\ OneEmpty => calls[i].score = Scale
         /\ GoldTokens = {} =>
              /\ GoldNorm = ""
              /\ calls[i].score = Scale
    /\ \A i \in HamCalls :
         ~ExpectsRefusal /\ PredNorm = "" /\ GoldNorm # "" =>
           /\ calls[i].fallback /\ ~calls[i].delegate
           /\ calls[i].score = (IF FallbackTarget THEN 0 ELSE Scale)

\* C24 witness: an empty prediction scored 1.0 by hallucination_aware_metric
\* against a positive gold of 50 characters or more.
C24_Witness ==
    \E i \in HamCalls :
        /\ ~ExpectsRefusal /\ ~FallbackTarget
        /\ PredNorm = "" /\ Len(GoldNorm) >= 50
        /\ calls[i].score = Scale

(***************************************************************************)
(* evaluate_model of compare_optimizers.py, statement by statement.  gold  *)
(* is the test set, as the positions of its examples in trainset; pred     *)
(* holds the predictions made so far; frames holds the locals; calls logs  *)
(* the calls of the model and of the metric, and how evaluate_model ended. *)
(***************************************************************************)
\* the longest test set
MaxTest == 3

\* a positive and a negative example of the dataset
EvalExamples == {1, 10}

Testsets == UNION {[1..n -> EvalExamples] : n \in 0..MaxTest}

Hallucinated == "A tuple is an immutable sequence"
Reworded == " That is what the context says about this question."

\* what the loaded model may answer for an example: the gold answer, the
\* gold answer with a trailing space, a refusal, something made up, or a
\* longer rewording
ModelAnswers(example) ==
    {example.answer, example.answer \o " ", DatasetRefusal, Hallucinated,
     example.answer \o Reworded}

\* hallucination_aware_metric(example, pred) for every example and answer
EvalResults ==
    [i \in 1..Len(trainset) |->
        [a \in ModelAnswers(trainset[i]) |->
            hallucination_aware_metric(trainset[i], [answer |-> a])]]

RECURSIVE sum(_)
\* sum(scores)
sum(scores) ==
    IF scores = << >> THEN 0
    ELSE scores[1] + sum(SubSeq(scores, 2, Len(scores)))

\* the float n / d, kept as the fraction
Ratio(n, d) == [num |-> n, den |-> d]

\* a slip: the guard of the average, on the accuracy too
accuracyGuarded(correct, total) ==
    IF total = 0 THEN Ratio(0, 1) ELSE Ratio(correct, total)

\* accuracy = correct / total
accuracy(correct, total) ==
    IF total = 0 THEN [raised |-> "ZeroDivisionError"] ELSE Ratio(correct, total)

\* avg_score = sum(scores) / len(scores) if scores else 0, in hundredths
avg_score(scores) ==
    IF scores # << >> THEN Ratio(sum(scores), Len(scores)) ELSE Ratio(0, 1)

InitEvaluate ==
    /\ gold \in Testsets
    /\ pred = << >>
    /\ calls = << >>
    /\ frames = << >>
    /\ stdout = << >>
    /\ files = << >>

At(pc) == frames # << >> /\ frames.pc = pc

\* for example in testset: the next example, or the end of the loop
NextExample(f) ==
    IF f.example < f.total
    THEN [f EXCEPT !.pc = "predict", !.example = f.example + 1]
    ELSE [f EXCEPT !.pc = "return"]

\* correct = 0; total = len(testset); scores = []
EvaluateEnter ==
    /\ frames = << >>
    /\ frames' = NextExample([pc |-> "enter", example |-> 0, correct |-> 0,
                              total |-> Len(gold), scores |-> << >>])
    /\ UNCHANGED <<files, gold, pred, calls, stdout>>

\* pred = model(context=example.context, question=example.question); an
\* exception of the language model's client leaves evaluate_model
Predict ==
    /\ At("predict")
    /\ \/ /\ \E a \in ModelAnswers(trainset[gold[frames.example]]) :
               pred' = Append(pred, [answer |-> a])
          /\ calls' = Append(calls, [fn |-> "model", example |-> frames.example])
          /\ frames' = [frames EXCEPT !.pc = "score"]
       \/ /\ calls' = calls \o << [fn |-> "model", example |-> frames.example],
                                  [fn |-> "evaluate_model", raised |-> "Exception"] >>
          /\ frames' = [frames EXCEPT !.pc = "done"]
          /\ UNCHANGED pred
    /\ UNCHANGED <<files, gold, stdout>>

\* score = hallucination_aware_metric(example, pred); scores.append(score);
\* if pred.answer == example.answer: correct += 1
Score ==
    /\ At("score")
    /\ LET i == frames.example
           example == trainset[gold[i]]
       IN  \E r \in EvalResults[gold[i]][pred[i].answer] :
             /\ calls' = Append(calls, [fn |-> "hallucination_aware_metric",
                                        example |-> i, score |-> r.score])
             /\ stdout' = stdout \o r.out
             /\ frames' = NextExample(
                  [frames EXCEPT !.scores = Append(@, r.score),
                                 !.correct = IF pred[i].answer = example.answer
                                             THEN @ + 1 ELSE @])
    /\ UNCHANGED <<files, gold, pred>>

\* accuracy, avg_score and the returned dict
ReturnMetrics ==
    /\ At("return")
    /\ LET acc == accuracy(frames.correct, frames.total)
       IN  calls' = Append(calls,
             IF "raised" \in DOMAIN acc
             THEN [fn |-> "evaluate_model", raised |-> acc.raised]
             ELSE [fn |-> "evaluate_model",
                   returned |-> [accuracy |-> acc,
                                 avg_metric_score |-> avg_score(frames.scores),
                                 total_examples |-> frames.total,
                                 exact_matches |-> frames.correct]])
    /\ frames' = [frames EXCEPT !.pc = "done"]
    /\ UNCHANGED <<files, gold, pred, stdout>>

NextEvaluate ==
    \/ EvaluateEnter
    \/ Predict
    \/ Score
    \/ ReturnMetrics

SpecEvaluate == InitEvaluate /\ [][NextEvaluate]_vars

(***************************************************************************)
(* main of compare_optimizers.py.  files holds the model files found,      *)
(* frames the locals of main, stdout the lines printed; one               *)
(* evaluate_model call is one step, its result any result the loop above   *)
(* can return on the trainset.                                             *)
(***************************************************************************)
\* one more example predicted, scored and counted
Tally(t, n) ==
    UNION {{[correct |-> t.correct + (IF a = trainset[n].answer THEN 1 ELSE 0),
             scores |-> t.scores + r.score] : r \in EvalResults[n][a]} :
           a \in ModelAnswers(trainset[n])}

RECURSIVE Tallies(_)
\* correct and sum(scores) after the first n examples of the trainset
Tallies(n) ==
    IF n = 0 THEN {[correct |-> 0, scores |-> 0]}
    ELSE UNION {Tally(t, n) : t \in Tallies(n - 1)}

\* what evaluate_model(model, trainset) can return
TrainsetResults ==
    {[accuracy |-> accuracy(t.correct, Len(trainset)),
      avg_metric_score |-> Ratio(t.scores, Len(trainset)),
      total_examples |-> Len(trainset),
      exact_matches |-> t.correct] : t \in Tallies(Len(trainset))}

\* None, where a fraction is expected
None == Ratio(0, 0)

\* results.get(name, {}).get(key, None)
Get(results, name, key) ==
    IF name \in DOMAIN results THEN results[name][key] ELSE None

\* a slip: "is not None" for the truth value
TruthyNotNone(x) == x # None

\* the truth value of a float or None: 0.0 and None are false
Truthy(x) == x # None /\ x.num # 0

\* models.items(), in insertion order
ModelNames == <<"BootstrapFewShot", "MIPROv2">>

ModelPath(name) ==
    IF name = "BootstrapFewShot" THEN bootstrap_model_path ELSE miprov2_model_path

Line(text) == [line |-> text]

InitCompare ==
    /\ gold = << >>
    /\ pred = << >>
    /\ calls = << >>
    /\ frames = << >>
    /\ stdout = << >>
    /\ \E paths \in SUBSET {bootstrap_model_path, miprov2_model_path} :
         files = [q \in paths |-> [by |-> "earlier run", lines |-> << >>]]

\* main, lines 65-99: the existence checks and the loading of the models
CompareStart ==
    /\ frames = << >>
    /\ LET bootstrap_exists == exists(bootstrap_model_path)
           miprov2_exists == exists(miprov2_model_path)
       IN  IF ~bootstrap_exists /\ ~miprov2_exists
           THEN /\ stdout' = stdout \o << Line("No trained models found!") >>
                /\ frames' = [pc |-> "done", bootstrap_exists |-> FALSE,
                              miprov2_exists |-> FALSE, results |-> << >>]
           ELSE /\ stdout' = stdout
                     \o << Line("Model Status:") >>
                     \o (IF bootstrap_exists
                         THEN << Line("Loading " \o bootstrap_model_path) >> ELSE << >>)
                     \o (IF miprov2_exists
                         THEN << Line("Loading " \o miprov2_model_path) >> ELSE << >>)
                     \o << Line("Evaluating models on training set...") >>
                /\ frames' = [pc |-> "evaluate", bootstrap_exists |-> bootstrap_exists,
                              miprov2_exists |-> miprov2_exists, results |-> << >>]
    /\ UNCHANGED <<files, gold, pred, calls>>

\* the loaded models not evaluated yet, by position in ModelNames
ToEvaluate ==
    {i \in DOMAIN ModelNames :
        exists(ModelPath(ModelNames[i])) /\ ModelNames[i] \notin DOMAIN frames.results}

\* results[name] = evaluate_model(model, trainset), for the next model; an
\* exception of the model's client leaves main
CompareEvaluate ==
    /\ At("evaluate")
    /\ ToEvaluate # {}
    /\ LET i == CHOOSE x \in ToEvaluate : \A y \in ToEvaluate : x <= y
           name == ModelNames[i]
       IN  /\ stdout' = Append(stdout, Line("Evaluating " \o name))
           /\ \/ /\ \E result \in TrainsetResults :
                      frames' = [frames EXCEPT
                                   !.results = (name :> result) @@ @,
                                   !.pc = IF ToEvaluate = {i} THEN "table" ELSE "evaluate"]
                 /\ UNCHANGED calls
              \/ /\ frames' = [frames EXCEPT !.pc = "done"]
                 /\ calls' = Append(calls, [fn |-> "main", raised |-> "Exception"])
    /\ UNCHANGED <<files, gold, pred>>

\* a table row: the two models' values, None for a model not loaded
Row(text, key) ==
    [line |-> text,
     bootstrap |-> Get(frames.results, "BootstrapFewShot", key),
     miprov2 |-> Get(frames.results, "MIPROv2", key)]

\* f"{bootstrap_matches}/15" and f"{miprov2_matches}/15", or N/A
MatchesRow ==
    LET Matches(name) ==
          IF name \in DOMAIN frames.results
          THEN Ratio(frames.results[name].exact_matches, 15) ELSE None
    IN  [line |-> "Exact Matches",
         bootstrap |-> Matches("BootstrapFewShot"),
         miprov2 |-> Matches("MIPROv2")]

\* the message of a three-way comparison of two fractions of one denominator
Winner(miprov2, bootstrap, more_miprov2, more_bootstrap, equal) ==
    IF miprov2.num > bootstrap.num THEN more_miprov2
    ELSE IF bootstrap.num > miprov2.num THEN more_bootstrap
    ELSE equal

AccuracyMessages ==
    {"MIPROv2 is more accurate", "BootstrapFewShot is more accurate",
     "Both optimizers have equal accuracy"}

ScoreMessages ==
    {"MIPROv2 has higher metric score", "BootstrapFewShot has higher metric score",
     "Both optimizers have equal metric scores"}

ProductionMessages ==
    {"Use MIPROv2 for production (better or equal accuracy)",
     "BootstrapFewShot performed better - consider using it"}

\* if bootstrap_acc and miprov2_acc: ... (lines 156-165)
AccuracyComparison(bootstrap_acc, miprov2_acc) ==
    IF Truthy(bootstrap_acc) /\ Truthy(miprov2_acc)
    THEN << Line(Winner(miprov2_acc, bootstrap_acc,
                        "MIPROv2 is more accurate",
                        "BootstrapFewShot is more accurate",
                        "Both optimizers have equal accuracy")) >>
    ELSE << >>

\* if bootstrap_score and miprov2_score: ... (lines 167-176); two sums of
\* the same fractional scores, added in different orders, can differ in the
\* last bit, and then any of the three messages may be printed
ScoreComparison(bootstrap_score, miprov2_score) ==
    IF Truthy(bootstrap_score) /\ Truthy(miprov2_score)
    THEN IF bootstrap_score.num = miprov2_score.num /\ bootstrap_score.num % Scale # 0
         THEN {<< Line(m) >> : m \in ScoreMessages}
         ELSE {<< Line(Winner(miprov2_score, bootstrap_score,
                              "MIPROv2 has higher metric score",
                              "BootstrapFewShot has higher metric score",
                              "Both optimizers have equal metric scores")) >>}
    ELSE {<< >>}

\* if miprov2_acc and bootstrap_acc: ... (lines 182-187)
ProductionRecommendation(bootstrap_acc, miprov2_acc) ==
    IF Truthy(miprov2_acc) /\ Truthy(bootstrap_acc)
    THEN << Line(IF miprov2_acc.num >= bootstrap_acc.num
                 THEN "Use MIPROv2 for production (better or equal accuracy)"
                 ELSE "BootstrapFewShot performed better - consider using it") >>
    ELSE << >>

\* main, lines 108-192: the table, and with both models the comparison and
\* the recommendation
CompareReport ==
    /\ At("table")
    /\ LET bootstrap_acc == Get(frames.results, "BootstrapFewShot", "accuracy")
           miprov2_acc == Get(frames.results, "MIPROv2", "accuracy")
           bootstrap_score == Get(frames.results, "BootstrapFewShot", "avg_metric_score")
           miprov2_score == Get(frames.results, "MIPROv2", "avg_metric_score")
           table == << Row("Exact Match Accuracy", "accuracy"),
                       Row("Avg Metric Score", "avg_metric_score"),
                       MatchesRow >>
       IN  IF frames.bootstrap_exists /\ frames.miprov2_exists
           THEN \E scores \in ScoreComparison(bootstrap_score, miprov2_score) :
                  stdout' = stdout \o table
                    \o << Line("Comparison:") >>
                    \o AccuracyComparison(bootstrap_acc, miprov2_acc)
                    \o scores
                    \o << Line("Recommendation:") >>
                    \o ProductionRecommendation(bootstrap_acc, miprov2_acc)
                    \o << Line("Use BootstrapFewShot for development (faster training)") >>
           ELSE stdout' = stdout \o table
    /\ frames' = [frames EXCEPT !.pc = "done"]
    /\ calls' = Append(calls, [fn |-> "main", returned |-> TRUE])
    /\ UNCHANGED <<files, gold, pred>>

NextCompare ==
    \/ CompareStart
    \/ CompareEvaluate
    \/ CompareReport

SpecCompare == InitCompare /\ [][NextCompare]_vars

(***************************************************************************)
(* Properties of the scripts                                               *)
(***************************************************************************)
Runs(fn) == {i \in DOMAIN calls : calls[i].fn = fn}

CompletedTrainRuns == {i \in Runs("train.py") : calls[i].completed}

\* C25: once train.py has run to completion, with either optimizer, the
\* model file verify.py and test.py look for exists: a verify.py run after
\* it that passes step 1 generates its report, and a test.py run after it
\* loads the model.
C25_TrainThenVerifyFinds ==
    \A i \in CompletedTrainRuns :
        /\ exists(verify_model_path)
        /\ exists(test_model_path)
        /\ \A j \in Runs("verify.py") : j > i /\ calls[j].step > 1 => calls[j].report
        /\ \A j \in Runs("test.py") : j > i => calls[j].loaded

TrainRunning == frames # << >> /\ frames.script = "train.py"

\* C27: with --optimizer miprov2, MIPROv2 gets auto = the supplied value or
\* "light", and num_threads only when a truthy value was given; otherwise
\* BootstrapFewShot is built with max_labeled_demos=6,
\* max_bootstrapped_demos=4, max_rounds=1, max_errors=10 whatever --auto and
\* --num-threads are; both get hallucination_aware_metric as the metric.
C27_OptimizerConfiguration ==
    TrainRunning =>
      LET args == frames.args
          kwargs == frames.optimizer.kwargs
      IN  IF args.optimizer = "miprov2"
          THEN /\ frames.optimizer.class = "MIPROv2"
               /\ kwargs.metric = "hallucination_aware_metric"
               /\ kwargs.auto = (IF args.auto = "None" THEN "light" ELSE args.auto)
               /\ "num_threads" \in DOMAIN kwargs
                    <=> args.num_threads.given /\ args.num_threads.value # 0
               /\ "num_threads" \in DOMAIN kwargs
                    => kwargs.num_threads = args.num_threads.value
          ELSE /\ frames.optimizer.class = "BootstrapFewShot"
               /\ kwargs = [metric |-> "hallucination_aware_metric",
                            max_labeled_demos |-> 6,
                            max_bootstrapped_demos |-> 4,
                            max_rounds |-> 1,
                            max_errors |-> 10]

\* C27 witness: a miprov2 run with --num-threads 0 and no --auto, about to
\* save: MIPROv2 was built in light mode without num_threads.
C27_Witness ==
    /\ TrainRunning /\ frames.pc = "save"
    /\ frames.args.optimizer = "miprov2" /\ frames.args.auto = "None"
    /\ frames.args.num_threads = [given |-> TRUE, value |-> 0]
    /\ frames.optimizer.kwargs.auto = "light"
    /\ "num_threads" \notin DOMAIN frames.optimizer.kwargs

\* the trainset sizes the report's check is asked about
SampleCounts == 0..(2 * Len(trainset))

\* C30: the report's 'Data Loaded' entry is PASS exactly when the trainset
\* has 6 examples; with the 15 shipped examples every report records it as
\* FAIL, after step 2 printed that all 15 samples loaded correctly.
C30_DataLoadedFails ==
    /\ \A n \in SampleCounts : DataLoaded(n) <=> n = 6
    /\ exists(report_path) =>
         LET lines == SeqToSet(files[report_path].lines)
         IN  /\ files[report_path].by = "verify.py"
             /\ "Samples: 15" \in lines
             /\ "FAIL Data Loaded" \in lines
             /\ "PASS Data Loaded" \notin lines
             /\ [script |-> "verify.py", line |-> "All 15 samples loaded correctly"]
                  \in SeqToSet(stdout)

\* C30 witness: a report with the model found and 'Data Loaded' failed.
C30_Witness ==
    /\ exists(report_path)
    /\ "PASS Model Trained" \in SeqToSet(files[report_path].lines)
    /\ "FAIL Data Loaded" \in SeqToSet(files[report_path].lines)
    /\ \E j \in Runs("verify.py") : calls[j].report

(***************************************************************************)
(* Properties of evaluate_model                                            *)
(***************************************************************************)
CallsFor(fn, i) == {k \in DOMAIN calls : calls[k].fn = fn /\ calls[k].example = i}

\* how evaluate_model ended, if it has
Ended == {k \in DOMAIN calls : calls[k].fn = "evaluate_model"}

ExactMatches == {i \in DOMAIN pred : pred[i].answer = trainset[gold[i]].answer}

MetricCalls == {k \in DOMAIN calls : calls[k].fn = "hallucination_aware_metric"}

RECURSIVE SumOver(_)
\* the scores of the metric calls in K, added up
SumOver(K) ==
    IF K = {} THEN 0
    ELSE LET k == CHOOSE x \in K : TRUE
         IN  calls[k].score + SumOver(K \ {k})

\* C29: evaluate_model predicts and scores every example once; for a
\* non-empty test set it returns total_examples = len(testset),
\* 0 <= exact_matches <= total_examples, accuracy = exact_matches /
\* total_examples and avg_metric_score = the mean of the scores; for an
\* empty test set it raises ZeroDivisionError and returns nothing.
C29_EvaluateModel ==
    /\ \A i \in DOMAIN gold :
         /\ Cardinality(CallsFor("model", i)) <= 1
         /\ Cardinality(CallsFor("hallucination_aware_metric", i)) <= 1
    /\ \A k \in Ended :
         /\ "returned" \in DOMAIN calls[k] =>
              LET result == calls[k].returned
              IN  /\ gold # << >>
                  /\ \A i \in DOMAIN gold :
                       /\ Cardinality(CallsFor("model", i)) = 1
                       /\ Cardinality(CallsFor("hallucination_aware_metric", i)) = 1
                  /\ result.total_examples = Len(gold)
                  /\ result.exact_matches \in 0..result.total_examples
                  /\ result.exact_matches = Cardinality(ExactMatches)
                  /\ result.accuracy = Ratio(result.exact_matches, result.total_examples)
                  /\ result.avg_metric_score = Ratio(SumOver(MetricCalls), Len(gold))
         /\ gold = << >> =>
              /\ "raised" \in DOMAIN calls[k]
              /\ calls[k].raised = "ZeroDivisionError"
              /\ Len(calls) = 1
         /\ "raised" \in DOMAIN calls[k] /\ calls[k].raised = "ZeroDivisionError"
              => gold = << >>
    /\ At("done") => Ended # {}

\* C29 witness: a test set of two or more examples evaluated to the end,
\* with some but not all answers exact and a score of 0.37 among the
\* scores.
C29_Witness ==
    \E k \in Ended :
        /\ "returned" \in DOMAIN calls[k]
        /\ calls[k].returned.exact_matches \in 1..(Len(gold) - 1)
        /\ \E m \in MetricCalls : calls[m].score = 37

(***************************************************************************)
(* Properties of compare_optimizers.main                                   *)
(***************************************************************************)
PrintedAny(texts) == \E k \in DOMAIN stdout : stdout[k].line \in texts

\* main has printed its last line
Reported == At("done") /\ \E k \in DOMAIN calls : "returned" \in DOMAIN calls[k]

BothModels == exists(bootstrap_model_path) /\ exists(miprov2_model_path)

NonZero(name, key) == frames.results[name][key].num # 0

\* C28: with both model files, the accuracy comparison line and the
\* production recommendation are printed only if both exact-match
\* accuracies are non-zero, and the metric-score comparison only if both
\* average scores are non-zero; a 0.0 skips the comparison like a missing
\* result, without a message, while the headings and the development
\* recommendation are printed all the same.
C28_ZeroSkipsComparison ==
    /\ Reported /\ BothModels =>
         LET accuracies == NonZero("BootstrapFewShot", "accuracy")
                             /\ NonZero("MIPROv2", "accuracy")
             averages == NonZero("BootstrapFewShot", "avg_metric_score")
                           /\ NonZero("MIPROv2", "avg_metric_score")
         IN  /\ PrintedAny(AccuracyMessages) <=> accuracies
             /\ PrintedAny(ProductionMessages) <=> accuracies
             /\ PrintedAny(ScoreMessages) <=> averages
             /\ PrintedAny({"Comparison:"})
             /\ PrintedAny({"Recommendation:"})
             /\ PrintedAny({"Use BootstrapFewShot for development (faster training)"})
             /\ Len(stdout) = 12 + (IF accuracies THEN 2 ELSE 0) + (IF averages THEN 1 ELSE 0)
    /\ ~BothModels =>
         ~PrintedAny(AccuracyMessages \cup ProductionMessages \cup ScoreMessages
                       \cup {"Comparison:", "Recommendation:"})

\* C28 witness: both models evaluated, MIPROv2 with 15 exact matches and
\* BootstrapFewShot with none but a non-zero average score: the scores are
\* compared, the accuracies are not, and no production recommendation is
\* printed.
C28_Witness ==
    /\ Reported /\ BothModels
    /\ frames.results["BootstrapFewShot"].exact_matches = 0
    /\ frames.results["MIPROv2"].exact_matches = Len(trainset)
    /\ PrintedAny(ScoreMessages)
    /\ ~PrintedAny(AccuracyMessages \cup ProductionMessages)
====
